---------------------------- MODULE Spec2Model ----------------------------
(***************************************************************************)
(* A model of the in-memory tabular data engine of csv.repair              *)
(* (client/src/pages/csv-repair.tsx): the bounded undo/redo history, the   *)
(* cell edit, structural, template, auto-repair and replace operations     *)
(* that push onto it, the sort view transform, the diff, the search, the   *)
(* type detector, the grid with its window of rendered rows and its cell  *)
(* edit controller, and the loading of files by an asynchronous parser.    *)
(*                                                                         *)
(* A cell value is a sequence of one-character strings, so that trimming,  *)
(* case folding, substring search and replacement are computed and not     *)
(* assumed.  A row is a function from column names to cell values; a key   *)
(* missing from a row reads as the empty value.                            *)
(***************************************************************************)
EXTENDS Integers, Sequences, FiniteSets, TLC

VARIABLES csvData, originalData, history, historyIndex, sortCol, sortDir,
          contextMenu, searchState, columnStatsDetectedType, looseDates,
          editorTable, resultTable, timers,
          isLoading, loadingFileName, parses,
          lastOp, sinceLoad, steps

vars == <<csvData, originalData, history, historyIndex, sortCol, sortDir,
          contextMenu, searchState, columnStatsDetectedType, looseDates,
          editorTable, resultTable, timers,
          isLoading, loadingFileName, parses,
          lastOp, sinceLoad, steps>>

(***************************************************************************)
(* Program constants and the bounds of the model.                          *)
(***************************************************************************)
MAX_HISTORY == 50
ROW_HEIGHT == 36
OVERSCAN == 5

\* Steps (parser completions and user operations) the full specification
\* explores.
MaxSteps == 5

\* Steps the detector specification explores: a load, then the statistics.
DetectSteps == 2

NoCol == "<null>"
NoDir == "<null>"

(***************************************************************************)
(* Strings.                                                                *)
(***************************************************************************)
Empty == <<>>

Min(a, b) == IF a < b THEN a ELSE b
Max(a, b) == IF a > b THEN a ELSE b

IsSpace(c) == c = " "
IsDigit(c) == c \in {"0", "1", "2", "3", "4", "5", "6", "7", "8", "9"}
IsUpper(c) == c \in {"A", "B", "F", "O"}

\* String.prototype.toLowerCase, one character.
LowerChar(c) ==
  CASE c = "A" -> "a"
    [] c = "B" -> "b"
    [] c = "F" -> "f"
    [] c = "O" -> "o"
    [] OTHER -> c

toLowerCase(v) == [i \in 1..Len(v) |-> LowerChar(v[i])]

RECURSIVE trimStart(_)
trimStart(v) ==
  IF v # Empty /\ IsSpace(Head(v)) THEN trimStart(Tail(v)) ELSE v

RECURSIVE trimEnd(_)
trimEnd(v) ==
  IF v # Empty /\ IsSpace(v[Len(v)]) THEN trimEnd(SubSeq(v, 1, Len(v) - 1)) ELSE v

\* String.prototype.trim
trim(v) == trimEnd(trimStart(v))

\* Whether q occurs in v at position i (1-based), compared literally.
OccursAt(v, q, i) ==
  /\ i >= 1
  /\ i + Len(q) - 1 <= Len(v)
  /\ SubSeq(v, i, i + Len(q) - 1) = q

\* String.prototype.includes
includes(v, q) == \E i \in 1..(Len(v) + 1) : OccursAt(v, q, i)

DigitValue(c) ==
  CASE c = "0" -> 0 [] c = "1" -> 1 [] c = "2" -> 2 [] c = "3" -> 3
    [] c = "4" -> 4 [] c = "5" -> 5 [] c = "6" -> 6 [] c = "7" -> 7
    [] c = "8" -> 8 [] c = "9" -> 9 [] OTHER -> 0

RECURSIVE DecimalValue(_)
DecimalValue(v) ==
  IF v = Empty THEN 0
  ELSE 10 * DecimalValue(SubSeq(v, 1, Len(v) - 1)) + DigitValue(v[Len(v)])

\* The result of Number(v) that is not a number.
NaN == -1

\* Number(v) for a value made of spaces, letters and digits: surrounding
\* white space is dropped, the empty string is 0, a run of digits is its
\* decimal value and anything else is NaN.
Number(v) ==
  LET t == trim(v) IN
  IF t = Empty THEN 0
  ELSE IF \A i \in 1..Len(t) : IsDigit(t[i]) THEN DecimalValue(t)
  ELSE NaN

isNaN(n) == n = NaN

\* Primary collation weight of a character: white space, then digits, then
\* letters without regard to case.
PrimaryWeight(c) ==
  CASE IsSpace(c) -> 0
    [] IsDigit(c) -> 1 + DigitValue(c)
    [] LowerChar(c) = "a" -> 20
    [] LowerChar(c) = "b" -> 21
    [] LowerChar(c) = "f" -> 25
    [] LowerChar(c) = "o" -> 34
    [] LowerChar(c) = "x" -> 43
    [] LowerChar(c) = "y" -> 44
    [] OTHER -> 50

\* Tertiary weight: a lower-case letter sorts before its upper-case form.
TertiaryWeight(c) == IF IsUpper(c) THEN 1 ELSE 0

\* Lexicographic comparison of two sequences of weights: -1, 0 or 1.
RECURSIVE LexCompare(_, _)
LexCompare(x, y) ==
  IF x = Empty /\ y = Empty THEN 0
  ELSE IF x = Empty THEN -1
  ELSE IF y = Empty THEN 1
  ELSE IF Head(x) < Head(y) THEN -1
  ELSE IF Head(x) > Head(y) THEN 1
  ELSE LexCompare(Tail(x), Tail(y))

\* String.prototype.localeCompare under the default collation: the primary
\* weights decide, and the case decides between strings they leave equal.
localeCompare(x, y) ==
  LET p == LexCompare([i \in 1..Len(x) |-> PrimaryWeight(x[i])],
                      [i \in 1..Len(y) |-> PrimaryWeight(y[i])])
  IN IF p # 0 THEN p
     ELSE LexCompare([i \in 1..Len(x) |-> TertiaryWeight(x[i])],
                     [i \in 1..Len(y) |-> TertiaryWeight(y[i])])

\* The first position at which q occurs in v without regard to case, or 0.
firstMatch(v, q) ==
  LET lv == toLowerCase(v)
      lq == toLowerCase(q)
      hits == {i \in 1..(Len(v) + 1) : OccursAt(lv, lq, i)}
  IN IF hits = {} THEN 0 ELSE CHOOSE i \in hits : \A j \in hits : i <= j

\* The first position from start on at which q occurs in v without regard
\* to case, or 0.
matchFrom(v, q, start) ==
  LET lv == toLowerCase(v)
      lq == toLowerCase(q)
      hits == {i \in start..(Len(v) + 1) : OccursAt(lv, lq, i)}
  IN IF hits = {} THEN 0 ELSE CHOOSE i \in hits : \A j \in hits : i <= j

\* What String.prototype.replace puts in the place of a match when the
\* replacement is a string and the pattern has no capture group: $$ is a
\* dollar sign, $& the matched text, $` the text before the match, $' the
\* text after it, and every other character stands for itself.
RECURSIVE GetSubstitution(_, _, _, _)
GetSubstitution(r, matched, before, after) ==
  IF r = Empty THEN Empty
  ELSE IF Head(r) = "$" /\ Len(r) >= 2 /\ r[2] \in {"$", "&", "`", "'"}
  THEN (CASE r[2] = "$" -> <<"$">>
          [] r[2] = "&" -> matched
          [] r[2] = "`" -> before
          [] r[2] = "'" -> after)
       \o GetSubstitution(SubSeq(r, 3, Len(r)), matched, before, after)
  ELSE <<Head(r)>> \o GetSubstitution(Tail(r), matched, before, after)

\* The substitution for the match of q at position i of v.
substituteAt(v, q, r, i) ==
  GetSubstitution(r, SubSeq(v, i, i + Len(q) - 1), SubSeq(v, 1, i - 1),
                  SubSeq(v, i + Len(q), Len(v)))

\* v.replace(new RegExp(escaped q, "i"), r): the first occurrence only.
replaceFirst(v, q, r) ==
  LET i == firstMatch(v, q) IN
  IF i = 0 THEN v
  ELSE SubSeq(v, 1, i - 1) \o substituteAt(v, q, r, i) \o SubSeq(v, i + Len(q), Len(v))

\* The part of v from start on with every occurrence of q replaced, left to
\* right, the search resuming after each match.
RECURSIVE replaceFrom(_, _, _, _)
replaceFrom(v, q, r, start) ==
  LET i == matchFrom(v, q, start) IN
  IF i = 0 THEN SubSeq(v, start, Len(v))
  ELSE SubSeq(v, start, i - 1) \o substituteAt(v, q, r, i)
         \o replaceFrom(v, q, r, i + Len(q))

\* The number of matches of new RegExp(escaped q, "gi") in v from start on:
\* the occurrences a global replace replaces.
RECURSIVE occurrencesFrom(_, _, _)
occurrencesFrom(v, q, start) ==
  LET i == matchFrom(v, q, start) IN
  IF i = 0 \/ q = Empty THEN 0 ELSE 1 + occurrencesFrom(v, q, i + Len(q))

\* v.replace(new RegExp(escaped q, "gi"), r) for a non-empty q.
replaceAll(v, q, r) == IF q = Empty THEN v ELSE replaceFrom(v, q, r, 1)

(***************************************************************************)
(* Rows and snapshots.                                                     *)
(***************************************************************************)
\* row[h] ?? ""
Cell(row, h) == IF h \in DOMAIN row THEN row[h] ELSE Empty

\* { ...row, [h]: v }
WithCell(row, h, v) ==
  [k \in (DOMAIN row) \union {h} |-> IF k = h THEN v ELSE row[k]]

\* delete row[h]
WithoutCell(row, h) == [k \in (DOMAIN row) \ {h} |-> row[k]]

\* Array.prototype.indexOf on the headers, 0-based, -1 when absent.
indexOf(headers, h) ==
  IF \E i \in 1..Len(headers) : headers[i] = h
  THEN (CHOOSE i \in 1..Len(headers) :
          headers[i] = h /\ \A j \in 1..(i - 1) : headers[j] # h) - 1
  ELSE -1

\* Array.prototype.splice(idx, 0, x) on a copy: x inserted at 0-based idx,
\* an idx beyond the end appending and a negative idx counting from the end.
spliceIn(seq, idx, x) ==
  LET at == IF idx < 0 THEN Max(Len(seq) + idx, 0) ELSE Min(idx, Len(seq))
  IN SubSeq(seq, 1, at) \o <<x>> \o SubSeq(seq, at + 1, Len(seq))

Range(seq) == {seq[i] : i \in 1..Len(seq)}

\* A cell value as the text a label shows.
RECURSIVE Text(_)
Text(v) == IF v = Empty THEN "" ELSE Head(v) \o Text(Tail(v))

\* The state of no dataset (csvData === null, originalData === null).
NoCsv == [loaded |-> FALSE, data |-> <<>>, headers |-> <<>>, errors |-> {}]
NoOriginal == [loaded |-> FALSE, data |-> <<>>]
NoMenu == [open |-> FALSE, row |-> 0, col |-> NoCol]
NoSearch == [query |-> Empty, replacement |-> Empty, matchCount |-> 0, currentMatch |-> 0]
NoDetected == [type |-> "<null>", confidence |-> [num |-> 0, den |-> 1]]

\* The state of a VirtualTable when it mounts; editingCell === null is NoEdit.
InitialHeight == 600
NoEdit == [editing |-> FALSE, row |-> 0, col |-> NoCol]
NewTable ==
  [scrollTop |-> 0, containerHeight |-> InitialHeight,
   editingCell |-> NoEdit, editValue |-> Empty]

(***************************************************************************)
(* Type detector.  A confidence is the ratio matches / sampleSize, kept as  *)
(* numerator and denominator: for the sizes of the model two such ratios    *)
(* are equal as floating-point numbers iff they are equal as fractions, and *)
(* ratio >= 0.6 iff 5 * matches >= 3 * sampleSize.                          *)
(***************************************************************************)
SampleLimit == 200
Threshold == [num |-> 3, den |-> 5]

NoSpace(v) == \A i \in 1..Len(v) : ~IsSpace(v[i])
AllDigits(v) == \A i \in 1..Len(v) : IsDigit(v[i])
\* [A-Za-z], over the characters the inputs of the model are written in.
IsLetter(c) == c \in {"a", "b", "f", "h", "o", "p", "s", "t", "w", "x", "y",
                      "A", "B", "F", "O"}
IsDateSeparator(c) == c \in {"-", "/"}
\* [$ euro pound yen rupee]: the signs other than $ are written by name.
CurrencySymbols == {"$", "<euro>", "<pound>", "<yen>", "<rupee>"}

\* /^[^\s@]+@[^\s@]+\.[^\s@]+$/.test(v.trim())
testEmail(v) ==
  LET t == trim(v)
      ats == {i \in 1..Len(t) : t[i] = "@"}
  IN /\ NoSpace(t)
     /\ Cardinality(ats) = 1
     /\ \A p \in ats : p > 1 /\ \E d \in (p + 2)..(Len(t) - 1) : t[d] = "."

\* /^(https?:\/\/|www\.)[^\s]+\.[^\s]{2,}$/i.test(v.trim())
testUrl(v) ==
  LET t == trim(v) IN
  \E pre \in {<<"h", "t", "t", "p", ":", "/", "/">>,
               <<"h", "t", "t", "p", "s", ":", "/", "/">>,
               <<"w", "w", "w", ".">>} :
    /\ Len(t) >= Len(pre)
    /\ toLowerCase(SubSeq(t, 1, Len(pre))) = pre
    /\ LET rest == SubSeq(t, Len(pre) + 1, Len(t)) IN
       /\ NoSpace(rest)
       /\ \E d \in 2..(Len(rest) - 2) : rest[d] = "."

\* /^[\+]?[(]?[0-9]{1,4}[)]?[-\s./0-9]{6,15}$/.test(v.trim())
\*   && /\d{7,}/.test(v.replace(/\D/g, ""))
testPhone(v) ==
  LET t == trim(v) IN
  /\ Cardinality({i \in 1..Len(v) : IsDigit(v[i])}) >= 7
  /\ \E a \in {0, 1}, b \in {0, 1}, k \in 1..4, c \in {0, 1} :
       LET head == a + b + k + c
           rest == SubSeq(t, head + 1, Len(t))
       IN /\ Len(t) >= head
          /\ a = 1 => t[1] = "+"
          /\ b = 1 => t[a + 1] = "("
          /\ AllDigits(SubSeq(t, a + b + 1, a + b + k))
          /\ c = 1 => t[a + b + k + 1] = ")"
          /\ Len(rest) \in 6..15
          /\ \A i \in 1..Len(rest) :
               IsDigit(rest[i]) \/ IsSpace(rest[i]) \/ rest[i] \in {"-", ".", "/"}

\* [\d,]+(\.\d{1,2})?
Amount(x) ==
  LET Body(y) == y # Empty /\ \A i \in 1..Len(y) : IsDigit(y[i]) \/ y[i] = ","
  IN \/ Body(x)
     \/ \E n \in {1, 2} :
          /\ Len(x) >= n + 2
          /\ x[Len(x) - n] = "."
          /\ AllDigits(SubSeq(x, Len(x) - n + 1, Len(x)))
          /\ Body(SubSeq(x, 1, Len(x) - n - 1))

\* The currency test: a symbol, an optional space and an amount, or an
\* amount, an optional space and a symbol.
testCurrency(v) ==
  LET t == trim(v) IN
  /\ Len(t) >= 2
  /\ \/ /\ t[1] \in CurrencySymbols
        /\ \/ Amount(SubSeq(t, 2, Len(t)))
           \/ IsSpace(t[2]) /\ Amount(SubSeq(t, 3, Len(t)))
     \/ /\ t[Len(t)] \in CurrencySymbols
        /\ \/ Amount(SubSeq(t, 1, Len(t) - 1))
           \/ IsSpace(t[Len(t) - 1]) /\ Amount(SubSeq(t, 1, Len(t) - 2))

DigitAt(t, i) == i \in 1..Len(t) /\ IsDigit(t[i])
DigitsAt(t, i, n) == \A j \in i..(i + n - 1) : DigitAt(t, j)
SeparatorAt(t, i) == i \in 1..Len(t) /\ IsDateSeparator(t[i])
SpacesAt(t, i, n) == \A j \in i..(i + n - 1) : j \in 1..Len(t) /\ IsSpace(t[j])

\* /^\d{4}[-/]\d{1,2}[-/]\d{1,2}/
yearFirst(t) ==
  /\ DigitsAt(t, 1, 4)
  /\ SeparatorAt(t, 5)
  /\ \E k \in {1, 2} :
       DigitsAt(t, 6, k) /\ SeparatorAt(t, 6 + k) /\ DigitAt(t, 7 + k)

\* /^\d{1,2}[-/]\d{1,2}[-/]\d{2,4}/
yearLast(t) ==
  \E k \in {1, 2}, l \in {1, 2} :
    /\ DigitsAt(t, 1, k)
    /\ SeparatorAt(t, k + 1)
    /\ DigitsAt(t, k + 2, l)
    /\ SeparatorAt(t, k + l + 2)
    /\ DigitsAt(t, k + l + 3, 2)

\* /^[A-Za-z]{3,}\s+\d{1,2},?\s+\d{4}/
monthName(t) ==
  \E n \in 3..Len(t), s1 \in 1..Len(t), k \in {1, 2}, c \in {0, 1}, s2 \in 1..Len(t) :
    /\ \A j \in 1..n : IsLetter(t[j])
    /\ SpacesAt(t, n + 1, s1)
    /\ DigitsAt(t, n + s1 + 1, k)
    /\ c = 1 => (n + s1 + k + 1 \in 1..Len(t) /\ t[n + s1 + k + 1] = ",")
    /\ SpacesAt(t, n + s1 + k + c + 1, s2)
    /\ DigitsAt(t, n + s1 + k + c + s2 + 1, 4)

\* !isNaN(Date.parse(t)) for a t that has one of the three date shapes.  A
\* date-only ISO string YYYY-MM-DD with a month of 01..12 and a day of
\* 01..28 is parsed by every engine; what Date.parse makes of any other
\* string is left to the engine, and looseDates is the engine's choice.
dateParses(t) ==
  IF /\ Len(t) = 10
     /\ DigitsAt(t, 1, 4) /\ t[5] = "-" /\ DigitsAt(t, 6, 2) /\ t[8] = "-"
     /\ DigitsAt(t, 9, 2)
     /\ DecimalValue(SubSeq(t, 6, 7)) \in 1..12
     /\ DecimalValue(SubSeq(t, 9, 10)) \in 1..28
  THEN TRUE
  ELSE looseDates

testDate(v) ==
  LET t == trim(v) IN
  (yearFirst(t) \/ yearLast(t) \/ monthName(t)) /\ dateParses(t)

\* v.trim() !== "" && !isNaN(Number(v.trim()))
testNumber(v) == trim(v) # Empty /\ ~isNaN(Number(trim(v)))

\* The types of TYPE_PATTERNS in the order of their declaration.
TYPE_PATTERNS == <<"email", "url", "phone", "currency", "date", "number">>

\* TYPE_PATTERNS[k].test(v)
patternTest(type, v) ==
  CASE type = "email" -> testEmail(v)
    [] type = "url" -> testUrl(v)
    [] type = "phone" -> testPhone(v)
    [] type = "currency" -> testCurrency(v)
    [] type = "date" -> testDate(v)
    [] type = "number" -> testNumber(v)

\* sample.filter((v) => pattern.test(v)).length
patternMatches(type, sample) ==
  Cardinality({i \in 1..Len(sample) : patternTest(type, sample[i])})

\* data.map((r) => r[header] ?? "").filter((v) => v.trim() !== "")
nonEmptyValues(data, header) ==
  SelectSeq([i \in 1..Len(data) |-> Cell(data[i], header)],
            LAMBDA v : trim(v) # Empty)

\* The loop over TYPE_PATTERNS from pattern k on, with confidence > 0.6 in
\* the place of >= 0.6.
RECURSIVE firstPattern_StrictThreshold(_, _)
firstPattern_StrictThreshold(sample, k) ==
  IF k > Len(TYPE_PATTERNS) THEN [type |-> "text", confidence |-> [num |-> 1, den |-> 1]]
  ELSE LET matches == patternMatches(TYPE_PATTERNS[k], sample) IN
       IF Threshold.den * matches > Threshold.num * Len(sample)
       THEN [type |-> TYPE_PATTERNS[k],
             confidence |-> [num |-> matches, den |-> Len(sample)]]
       ELSE firstPattern_StrictThreshold(sample, k + 1)

\* The loop over TYPE_PATTERNS from pattern k on.
RECURSIVE firstPattern(_, _)
firstPattern(sample, k) ==
  IF k > Len(TYPE_PATTERNS) THEN [type |-> "text", confidence |-> [num |-> 1, den |-> 1]]
  ELSE LET matches == patternMatches(TYPE_PATTERNS[k], sample) IN
       IF Threshold.den * matches >= Threshold.num * Len(sample)
       THEN [type |-> TYPE_PATTERNS[k],
             confidence |-> [num |-> matches, den |-> Len(sample)]]
       ELSE firstPattern(sample, k + 1)

detectColumnType(data, header) ==
  LET values == nonEmptyValues(data, header) IN
  IF Len(values) = 0 THEN [type |-> "text", confidence |-> [num |-> 0, den |-> 1]]
  ELSE LET sampleSize == Min(Len(values), SampleLimit)
           sample == SubSeq(values, 1, sampleSize)
       IN firstPattern(sample, 1)

(***************************************************************************)
(* The page's state as one value: the operations below are functions from  *)
(* the state in which a handler starts to the state its updates produce.   *)
(* pushes counts the calls of pushHistory made by the handler under way.   *)
(***************************************************************************)
App ==
  [csvData |-> csvData, originalData |-> originalData, history |-> history,
   historyIndex |-> historyIndex, sortCol |-> sortCol, sortDir |-> sortDir,
   contextMenu |-> contextMenu, searchState |-> searchState,
   columnStatsDetectedType |-> columnStatsDetectedType,
   editorTable |-> editorTable, resultTable |-> resultTable, timers |-> timers,
   isLoading |-> isLoading, loadingFileName |-> loadingFileName, parses |-> parses,
   pushes |-> 0]

\* The snapshot the grid displays.
Displayed(s) == [headers |-> s.csvData.headers, data |-> s.csvData.data]

\* The 0-based entry i of the log.
Entry(s, i) == s.history[i + 1]

(***************************************************************************)
(* History store.                                                          *)
(***************************************************************************)
\* pushHistory without the eviction of the oldest entry.
pushHistory_NoEvict(s, data, headers, label) ==
  LET trimmed == SubSeq(s.history, 1, s.historyIndex + 1)
      next == Append(trimmed, [data |-> data, headers |-> headers, label |-> label])
  IN [s EXCEPT !.history = next,
               !.historyIndex = Min(s.historyIndex + 1, MAX_HISTORY - 1),
               !.pushes = @ + 1]

\* pushHistory with the cursor advanced without the cap at the last index.
pushHistory_UncappedIndex(s, data, headers, label) ==
  LET trimmed == SubSeq(s.history, 1, s.historyIndex + 1)
      next == Append(trimmed, [data |-> data, headers |-> headers, label |-> label])
  IN [s EXCEPT !.history = IF Len(next) > MAX_HISTORY THEN Tail(next) ELSE next,
               !.historyIndex = s.historyIndex + 1,
               !.pushes = @ + 1]

\* pushHistory evicting the newest entry (pop) instead of the oldest (shift).
pushHistory_EvictNewest(s, data, headers, label) ==
  LET trimmed == SubSeq(s.history, 1, s.historyIndex + 1)
      next == Append(trimmed, [data |-> data, headers |-> headers, label |-> label])
  IN [s EXCEPT !.history = IF Len(next) > MAX_HISTORY
                           THEN SubSeq(next, 1, Len(next) - 1) ELSE next,
               !.historyIndex = Min(s.historyIndex + 1, MAX_HISTORY - 1),
               !.pushes = @ + 1]

\* pushHistory appending to the whole log, the entries beyond the cursor kept.
pushHistory_NoTruncate(s, data, headers, label) ==
  LET next == Append(s.history, [data |-> data, headers |-> headers, label |-> label])
  IN [s EXCEPT !.history = IF Len(next) > MAX_HISTORY THEN Tail(next) ELSE next,
               !.historyIndex = Min(s.historyIndex + 1, MAX_HISTORY - 1),
               !.pushes = @ + 1]

pushHistory(s, data, headers, label) ==
  LET trimmed == SubSeq(s.history, 1, s.historyIndex + 1)
      next == Append(trimmed, [data |-> data, headers |-> headers, label |-> label])
  IN [s EXCEPT !.history = IF Len(next) > MAX_HISTORY THEN Tail(next) ELSE next,
               !.historyIndex = Min(s.historyIndex + 1, MAX_HISTORY - 1),
               !.pushes = @ + 1]

canUndo(s) == s.historyIndex > 0

\* canRedo with the last entry but one taken for the last.
canRedo_OffByOne(s) == s.historyIndex < Len(s.history) - 2

canRedo(s) == s.historyIndex < Len(s.history) - 1

handleUndo(s) ==
  IF ~canUndo(s) \/ ~s.csvData.loaded THEN s
  ELSE LET prev == Entry(s, s.historyIndex - 1) IN
       [s EXCEPT !.historyIndex = @ - 1,
                 !.csvData = [@ EXCEPT !.data = prev.data, !.headers = prev.headers]]

handleRedo(s) ==
  IF ~canRedo(s) \/ ~s.csvData.loaded THEN s
  ELSE LET next == Entry(s, s.historyIndex + 1) IN
       [s EXCEPT !.historyIndex = @ + 1,
                 !.csvData = [@ EXCEPT !.data = next.data, !.headers = next.headers]]

(***************************************************************************)
(* Search matches and their synchronisation.                               *)
(***************************************************************************)
\* Row-major, header-order list of the cells of the grid.
Cells(data, headers) ==
  [k \in 1..(Len(data) * Len(headers)) |->
     [row |-> (k - 1) \div Len(headers),
      col |-> headers[((k - 1) % Len(headers)) + 1]]]

\* searchMatches without the return on an empty query.
searchMatches_NoEmptyGuard(s) ==
  IF ~s.csvData.loaded THEN <<>>
  ELSE LET q == toLowerCase(s.searchState.query)
           Hit(m) == includes(toLowerCase(Cell(s.csvData.data[m.row + 1], m.col)), q)
       IN SelectSeq(Cells(s.csvData.data, s.csvData.headers), Hit)

\* searchMatches comparing with regard to case.
searchMatches_CaseSensitive(s) ==
  IF ~s.csvData.loaded \/ s.searchState.query = Empty THEN <<>>
  ELSE LET q == s.searchState.query
           Hit(m) == includes(Cell(s.csvData.data[m.row + 1], m.col), q)
       IN SelectSeq(Cells(s.csvData.data, s.csvData.headers), Hit)

searchMatches(s) ==
  IF ~s.csvData.loaded \/ s.searchState.query = Empty THEN <<>>
  ELSE LET q == toLowerCase(s.searchState.query)
           Hit(m) == includes(toLowerCase(Cell(s.csvData.data[m.row + 1], m.col)), q)
       IN SelectSeq(Cells(s.csvData.data, s.csvData.headers), Hit)

\* The effect on [searchMatches.length] with the selected match left where
\* it was.
syncMatchCount_NoClamp(before, s) ==
  LET n == Len(searchMatches(s)) IN
  IF n = Len(searchMatches(before)) THEN s
  ELSE [s EXCEPT !.searchState.matchCount = n]

\* The effect on [searchMatches.length]: it runs after a render in which the
\* number of matches differs from that of the render before.
syncMatchCount(before, s) ==
  LET n == Len(searchMatches(s)) IN
  IF n = Len(searchMatches(before)) THEN s
  ELSE [s EXCEPT !.searchState.matchCount = n,
                 !.searchState.currentMatch =
                     IF n > 0 THEN Min(@, n - 1) ELSE 0]

\* The keys `${row}:${col}` of the map of cells to highlight.
\* The set of row indices the grid highlights as erroneous: the rows of the
\* diagnostics of csvData that name a row.
errorRows(s) == IF ~s.csvData.loaded THEN {} ELSE s.csvData.errors

highlightCells(s) ==
  IF s.searchState.query = Empty THEN {}
  ELSE LET matches == searchMatches(s) IN
       {ToString(matches[k].row) \o ":" \o matches[k].col : k \in 1..Len(matches)}

(***************************************************************************)
(* Load: the completion of the parser.                                     *)
(***************************************************************************)
\* processFile up to the call of the parser: the indicator is shown under
\* the name of the file and a parse of the file is outstanding.  file is the
\* name of the File, what the parser makes of it (results) and whether the
\* parser fails on it.
processFile(s, file) ==
  [s EXCEPT !.isLoading = TRUE,
            !.loadingFileName = file.name,
            !.parses = Append(@, file)]

\* loadComplete with the dataset dropped when no column was detected.
loadComplete_DropsOnNoFields(s, results) ==
  IF Len(results.fields) = 0
  THEN [s EXCEPT !.csvData = NoCsv, !.originalData = NoOriginal,
                 !.history = <<>>, !.historyIndex = -1, !.isLoading = FALSE]
  ELSE [s EXCEPT
          !.csvData = [loaded |-> TRUE, data |-> results.data,
                       headers |-> results.fields, errors |-> results.errors],
          !.originalData = [loaded |-> TRUE, data |-> results.data],
          !.history = <<[data |-> results.data, headers |-> results.fields,
                         label |-> "Initial load"]>>,
          !.historyIndex = 0,
          !.sortCol = NoCol,
          !.sortDir = NoDir,
          !.searchState = NoSearch,
          !.isLoading = FALSE]

\* loadComplete with the loaded snapshot pushed onto the log that was there.
loadComplete_KeepsLog(s, results) ==
  IF Len(results.fields) = 0 THEN [s EXCEPT !.isLoading = FALSE]
  ELSE [s EXCEPT
          !.csvData = [loaded |-> TRUE, data |-> results.data,
                       headers |-> results.fields, errors |-> results.errors],
          !.originalData = [loaded |-> TRUE, data |-> results.data],
          !.history = Append(@, [data |-> results.data, headers |-> results.fields,
                                 label |-> "Initial load"]),
          !.historyIndex = Len(s.history),
          !.sortCol = NoCol,
          !.sortDir = NoDir,
          !.searchState = NoSearch,
          !.isLoading = FALSE]

\* The complete callback: results.meta.fields, results.data, results.errors.
loadComplete(s, results) ==
  IF Len(results.fields) = 0 THEN [s EXCEPT !.isLoading = FALSE]
  ELSE [s EXCEPT
          !.csvData = [loaded |-> TRUE, data |-> results.data,
                       headers |-> results.fields, errors |-> results.errors],
          !.originalData = [loaded |-> TRUE, data |-> results.data],
          !.history = <<[data |-> results.data, headers |-> results.fields,
                         label |-> "Initial load"]>>,
          !.historyIndex = 0,
          !.sortCol = NoCol,
          !.sortDir = NoDir,
          !.searchState = NoSearch,
          !.isLoading = FALSE]

\* The error callback.
loadError(s) == [s EXCEPT !.isLoading = FALSE]

\* The outstanding parse i ends and the parser calls the callback of its
\* outcome.
parseDone(s, i) ==
  LET file == s.parses[i]
      rest == [s EXCEPT !.parses = SubSeq(@, 1, i - 1) \o SubSeq(@, i + 1, Len(@))]
  IN IF file.fails THEN loadError(rest) ELSE loadComplete(rest, file.results)

(***************************************************************************)
(* Cell edit.                                                              *)
(***************************************************************************)
\* handleCellEdit with the snapshot pushed twice.
handleCellEdit_PushTwice(s, rowIndex, header, value) ==
  IF ~s.csvData.loaded THEN s
  ELSE LET prev == s.csvData
           newData == [prev.data EXCEPT
                         ![rowIndex + 1] = WithCell(prev.data[rowIndex + 1], header, value)]
           label == "Edit R" \o ToString(rowIndex + 1) \o ":" \o header
           pushed == pushHistory(pushHistory(s, newData, prev.headers, label),
                                 newData, prev.headers, label)
       IN [pushed EXCEPT !.csvData.data = newData]

handleCellEdit(s, rowIndex, header, value) ==
  IF ~s.csvData.loaded THEN s
  ELSE LET prev == s.csvData
           newData == [prev.data EXCEPT
                         ![rowIndex + 1] = WithCell(prev.data[rowIndex + 1], header, value)]
           pushed == pushHistory(s, newData, prev.headers,
                                 "Edit R" \o ToString(rowIndex + 1) \o ":" \o header)
       IN [pushed EXCEPT !.csvData.data = newData]

(***************************************************************************)
(* The grid (VirtualTable).  The page mounts two of them: the editor's,    *)
(* which is editable and commits through handleCellEdit, and the one of    *)
(* the query results, which is not.  A table t is the state of one of      *)
(* them.  Offsets and heights are whole pixels.                            *)
(***************************************************************************)
\* Math.ceil(a / b) for a >= 0 and b > 0.
ceilDiv(a, b) == (a + b - 1) \div b

startRow(scrollTop) == Max(0, (scrollTop \div ROW_HEIGHT) - OVERSCAN)

\* visibleCount with the overscan counted once.
visibleCount_OneMargin(containerHeight) == ceilDiv(containerHeight, ROW_HEIGHT) + OVERSCAN

visibleCount(containerHeight) == ceilDiv(containerHeight, ROW_HEIGHT) + OVERSCAN * 2

\* totalRows is data.length.
endRow(totalRows, scrollTop, containerHeight) ==
  Min(totalRows, startRow(scrollTop) + visibleCount(containerHeight))

\* The row and column at which the table renders its input, if it does:
\* the editing cell is a cell of a row of the window.
inputShown(t, data, headers) ==
  /\ t.editingCell.editing
  /\ t.editingCell.col \in Range(headers)
  /\ t.editingCell.row >= startRow(t.scrollTop)
  /\ t.editingCell.row < endRow(Len(data), t.scrollTop, t.containerHeight)

\* onScroll of the body: target.scrollTop.
handleScroll(t, scrollTop) == [t EXCEPT !.scrollTop = scrollTop]

\* The callback of the ResizeObserver: entry.contentRect.height.
resizeObserved(t, height) == [t EXCEPT !.containerHeight = height]

handleDoubleClick(t, editable, data, rowIndex, header) ==
  IF ~editable THEN t
  ELSE [t EXCEPT !.editingCell = [editing |-> TRUE, row |-> rowIndex, col |-> header],
                 !.editValue = Cell(data[rowIndex + 1], header)]

\* onChange of the input.
inputChange(t, value) == [t EXCEPT !.editValue = value]

\* cancelEdit that hands the draft to onCellEdit.
cancelEdit_Commits(s) ==
  LET cell == s.editorTable.editingCell
      edited == IF cell.editing
                THEN handleCellEdit(s, cell.row, cell.col, s.editorTable.editValue)
                ELSE s
  IN [edited EXCEPT !.editorTable.editingCell = NoEdit]

cancelEdit(s) == [s EXCEPT !.editorTable.editingCell = NoEdit]

\* commitEdit that leaves the controller in Editing.
commitEdit_StaysEditing(s) ==
  LET cell == s.editorTable.editingCell IN
  IF cell.editing
  THEN handleCellEdit(s, cell.row, cell.col, s.editorTable.editValue)
  ELSE s

\* commitEdit of the editor's table: onCellEdit is handleCellEdit.
commitEdit(s) ==
  LET cell == s.editorTable.editingCell
      edited == IF cell.editing
                THEN handleCellEdit(s, cell.row, cell.col, s.editorTable.editValue)
                ELSE s
  IN [edited EXCEPT !.editorTable.editingCell = NoEdit]

\* The callback handed to setTimeout(..., 0): the cell to enter and the
\* value it reads for the draft from the data of the render that made it.
reentry(data, row, col) == [row |-> row, col |-> col, value |-> Cell(data[row + 1], col)]

\* onKeyDown of the input.  data and headers are those of the render in
\* which the key is pressed.
handleKeyDownInEdit(s, key, shiftKey) ==
  LET cell == s.editorTable.editingCell
      data == s.csvData.data
      headers == s.csvData.headers
      colIdx == indexOf(headers, cell.col)
      nextCol == IF shiftKey THEN colIdx - 1 ELSE colIdx + 1
  IN CASE key = "Enter" ->
            IF cell.editing /\ cell.row + 1 < Len(data)
            THEN [commitEdit(s) EXCEPT
                    !.timers = Append(@, reentry(data, cell.row + 1, cell.col))]
            ELSE commitEdit(s)
       [] key = "Escape" -> cancelEdit(s)
       [] key = "Tab" ->
            IF cell.editing /\ nextCol >= 0 /\ nextCol < Len(headers)
            THEN [commitEdit(s) EXCEPT
                    !.timers = Append(@, reentry(data, cell.row, headers[nextCol + 1]))]
            ELSE commitEdit(s)
       [] OTHER -> s

\* The oldest pending timeout runs.
timeoutRuns(s) ==
  IF s.timers = <<>> THEN s
  ELSE LET next == Head(s.timers) IN
       [s EXCEPT !.editorTable.editingCell =
                     [editing |-> TRUE, row |-> next.row, col |-> next.col],
                 !.editorTable.editValue = next.value,
                 !.timers = Tail(@)]

(***************************************************************************)
(* Sort.                                                                   *)
(***************************************************************************)
\* The comparator handleSort hands to Array.prototype.sort.
compareRows(a, b, header, dir) ==
  LET va == Cell(a, header)
      vb == Cell(b, header)
      na == Number(va)
      nb == Number(vb)
  IN IF ~isNaN(na) /\ ~isNaN(nb)
     THEN (IF dir = "asc" THEN na - nb ELSE nb - na)
     ELSE (IF dir = "asc" THEN localeCompare(va, vb) ELSE localeCompare(vb, va))

\* x put into a sorted sequence behind every element that does not compare
\* greater than it.
RECURSIVE insertSorted(_, _, _, _)
insertSorted(sorted, x, header, dir) ==
  IF sorted = <<>> THEN <<x>>
  ELSE LET y == sorted[Len(sorted)] IN
       IF compareRows(y, x, header, dir) > 0
       THEN Append(insertSorted(SubSeq(sorted, 1, Len(sorted) - 1), x, header, dir), y)
       ELSE Append(sorted, x)

\* [...data].sort(comparator): the sort is stable.
RECURSIVE sortRows(_, _, _)
sortRows(data, header, dir) ==
  IF data = <<>> THEN <<>>
  ELSE insertSorted(sortRows(SubSeq(data, 1, Len(data) - 1), header, dir),
                    data[Len(data)], header, dir)

\* handleSort with the rows sorted in place: prev.data.sort(...) in the place
\* of [...prev.data].sort(...).  The array of the displayed rows is that of
\* the entries of the log that were pushed or displayed with it, and they
\* are sorted with it.
handleSort_InPlace(s, header) ==
  IF ~s.csvData.loaded THEN s
  ELSE LET newDir == IF s.sortCol # header THEN "asc"
                     ELSE IF s.sortDir = "asc" THEN "desc"
                     ELSE NoDir
           s1 == [s EXCEPT !.sortCol = IF newDir # NoDir THEN header ELSE NoCol,
                           !.sortDir = newDir]
           sorted == sortRows(s.csvData.data, header, newDir)
       IN IF newDir = NoDir
          THEN (IF Len(s.history) > 0
                THEN [s1 EXCEPT !.csvData.data = Entry(s, 0).data]
                ELSE s1)
          ELSE [s1 EXCEPT !.csvData.data = sorted,
                          !.history = [k \in 1..Len(s.history) |->
                                         IF s.history[k].data = s.csvData.data
                                         THEN [s.history[k] EXCEPT !.data = sorted]
                                         ELSE s.history[k]]]

\* handleSort with the step to unsorted restoring the entry at the cursor.
handleSort_RestoreCursor(s, header) ==
  IF ~s.csvData.loaded THEN s
  ELSE LET newDir == IF s.sortCol # header THEN "asc"
                     ELSE IF s.sortDir = "asc" THEN "desc"
                     ELSE NoDir
           s1 == [s EXCEPT !.sortCol = IF newDir # NoDir THEN header ELSE NoCol,
                           !.sortDir = newDir]
       IN IF newDir = NoDir
          THEN (IF Len(s.history) > 0
                THEN [s1 EXCEPT !.csvData.data = Entry(s, s.historyIndex).data]
                ELSE s1)
          ELSE [s1 EXCEPT !.csvData.data = sortRows(s.csvData.data, header, newDir)]

handleSort(s, header) ==
  IF ~s.csvData.loaded THEN s
  ELSE LET newDir == IF s.sortCol # header THEN "asc"
                     ELSE IF s.sortDir = "asc" THEN "desc"
                     ELSE NoDir
           s1 == [s EXCEPT !.sortCol = IF newDir # NoDir THEN header ELSE NoCol,
                           !.sortDir = newDir]
       IN IF newDir = NoDir
          THEN (IF Len(s.history) > 0
                THEN [s1 EXCEPT !.csvData.data = Entry(s, 0).data]
                ELSE s1)
          ELSE [s1 EXCEPT !.csvData.data = sortRows(s.csvData.data, header, newDir)]

(***************************************************************************)
(* Repair templates and auto-repair.                                       *)
(***************************************************************************)
\* newRow[h] && newRow[h] !== newRow[h].trim()
NeedsTrim(row, h) == Cell(row, h) # Empty /\ Cell(row, h) # trim(Cell(row, h))

trimRow(row, headers) ==
  [k \in DOMAIN row |->
     IF k \in Range(headers) /\ NeedsTrim(row, k) THEN trim(row[k]) ELSE row[k]]

\* headers.every((h) => (row[h] ?? "").trim() === "")
allEmpty(row, headers) == \A h \in Range(headers) : trim(Cell(row, h)) = Empty

\* headers.map((h) => row[h] ?? "")
rowKey(row, headers) == [i \in 1..Len(headers) |-> Cell(row, headers[i])]

TemplateIds == {"trim-whitespace", "remove-empty-rows", "remove-duplicate-rows"}

\* REPAIR_TEMPLATES[id].apply(data, headers)
applyTemplate(id, data, headers) ==
  CASE id = "trim-whitespace" ->
         [data |-> [r \in 1..Len(data) |-> trimRow(data[r], headers)],
          headers |-> headers,
          changes |-> Cardinality({<<r, h>> \in (1..Len(data)) \X Range(headers) :
                                      NeedsTrim(data[r], h)})]
    [] id = "remove-empty-rows" ->
         LET Keep(row) == ~allEmpty(row, headers)
             newData == SelectSeq(data, Keep)
         IN [data |-> newData, headers |-> headers,
             changes |-> Len(data) - Len(newData)]
    [] id = "remove-duplicate-rows" ->
         LET first == {r \in 1..Len(data) :
                         \A p \in 1..(r - 1) :
                            rowKey(data[p], headers) # rowKey(data[r], headers)}
             idx == SelectSeq([r \in 1..Len(data) |-> r], LAMBDA r : r \in first)
             newData == [i \in 1..Len(idx) |-> data[idx[i]]]
         IN [data |-> newData, headers |-> headers,
             changes |-> Len(data) - Len(newData)]

\* The Apply button of a template and the handler it calls.
handleApplyTemplate(s, templateId) ==
  IF ~s.csvData.loaded THEN s
  ELSE LET result == applyTemplate(templateId, s.csvData.data, s.csvData.headers) IN
       IF result.changes = 0 THEN s
       ELSE [pushHistory(s, result.data, result.headers, "Template: " \o templateId)
               EXCEPT !.csvData.data = result.data,
                      !.csvData.headers = result.headers]

\* The number handleAutoRepair reports.
autoRepairCount(data, headers) ==
  LET Keep(row) == ~allEmpty(row, headers)
      kept == SelectSeq(data, Keep)
  IN (Len(data) - Len(kept))
     + Cardinality({<<r, h>> \in (1..Len(kept)) \X Range(headers) :
                      NeedsTrim(kept[r], h)})

\* handleAutoRepair without the removal of the empty rows.
handleAutoRepair_KeepsEmptyRows(s) ==
  IF ~s.csvData.loaded THEN s
  ELSE LET headers == s.csvData.headers
           newData == [r \in 1..Len(s.csvData.data) |-> trimRow(s.csvData.data[r], headers)]
       IN [pushHistory(s, newData, headers, "Auto-repair")
             EXCEPT !.csvData.data = newData]

handleAutoRepair(s) ==
  IF ~s.csvData.loaded THEN s
  ELSE LET headers == s.csvData.headers
           Keep(row) == ~allEmpty(row, headers)
           kept == SelectSeq(s.csvData.data, Keep)
           newData == [r \in 1..Len(kept) |-> trimRow(kept[r], headers)]
       IN [pushHistory(s, newData, headers, "Auto-repair")
             EXCEPT !.csvData.data = newData]

(***************************************************************************)
(* Context menu and the structural operations.                             *)
(***************************************************************************)
handleContextMenu(s, row, col) ==
  [s EXCEPT !.contextMenu = [open |-> TRUE, row |-> row, col |-> col]]

\* onClose of the menu: setContextMenu(null).
closeContextMenu(s) == [s EXCEPT !.contextMenu = NoMenu]

\* handleInsertRow with the blank row put at the anchor for either position.
handleInsertRow_AlwaysAbove(s, position) ==
  IF ~s.csvData.loaded \/ ~s.contextMenu.open THEN s
  ELSE LET menu == s.contextMenu
           newRow == [h \in Range(s.csvData.headers) |-> Empty]
           newData == spliceIn(s.csvData.data, menu.row, newRow)
       IN [pushHistory(s, newData, s.csvData.headers,
                       "Insert row " \o position \o " R" \o ToString(menu.row + 1))
             EXCEPT !.csvData.data = newData]

\* position is "above" or "below".
handleInsertRow(s, position) ==
  IF ~s.csvData.loaded \/ ~s.contextMenu.open THEN s
  ELSE LET menu == s.contextMenu
           idx == IF position = "above" THEN menu.row ELSE menu.row + 1
           newRow == [h \in Range(s.csvData.headers) |-> Empty]
           newData == spliceIn(s.csvData.data, idx, newRow)
       IN [pushHistory(s, newData, s.csvData.headers,
                       "Insert row " \o position \o " R" \o ToString(menu.row + 1))
             EXCEPT !.csvData.data = newData]

\* handleDeleteRow with the diagnostics moved along with the rows: the one of
\* the deleted row dropped, those below it shifted up by one.
handleDeleteRow_RemapsErrors(s) ==
  IF ~s.csvData.loaded \/ ~s.contextMenu.open THEN s
  ELSE LET menu == s.contextMenu
           data == s.csvData.data
           keep == SelectSeq([i \in 1..Len(data) |-> i], LAMBDA i : i - 1 # menu.row)
           newData == [i \in 1..Len(keep) |-> data[keep[i]]]
           newErrors == {e \in s.csvData.errors : e < menu.row}
                          \cup {e - 1 : e \in {x \in s.csvData.errors : x > menu.row}}
       IN [pushHistory(s, newData, s.csvData.headers,
                       "Delete row " \o ToString(menu.row + 1))
             EXCEPT !.csvData.data = newData, !.csvData.errors = newErrors]

handleDeleteRow(s) ==
  IF ~s.csvData.loaded \/ ~s.contextMenu.open THEN s
  ELSE LET menu == s.contextMenu
           data == s.csvData.data
           keep == SelectSeq([i \in 1..Len(data) |-> i], LAMBDA i : i - 1 # menu.row)
           newData == [i \in 1..Len(keep) |-> data[keep[i]]]
       IN [pushHistory(s, newData, s.csvData.headers,
                       "Delete row " \o ToString(menu.row + 1))
             EXCEPT !.csvData.data = newData]

\* The first of new_column, new_column_1, new_column_2, ... not in headers.
RECURSIVE freshColumnName(_, _, _)
freshColumnName(headers, newName, counter) ==
  IF newName \in Range(headers)
  THEN freshColumnName(headers, "new_column_" \o ToString(counter), counter + 1)
  ELSE newName

\* handleInsertColumn with the name new_column whatever the headers are.
handleInsertColumn_FixedName(s, position) ==
  IF ~s.csvData.loaded \/ ~s.contextMenu.open THEN s
  ELSE LET headers == s.csvData.headers
           colIdx == indexOf(headers, s.contextMenu.col)
           insertIdx == IF position = "left" THEN colIdx ELSE colIdx + 1
           newName == "new_column"
           newHeaders == spliceIn(headers, insertIdx, newName)
           newData == [r \in 1..Len(s.csvData.data) |->
                         WithCell(s.csvData.data[r], newName, Empty)]
       IN [pushHistory(s, newData, newHeaders, "Insert column \"" \o newName \o "\"")
             EXCEPT !.csvData.data = newData, !.csvData.headers = newHeaders]

\* position is "left" or "right".
handleInsertColumn(s, position) ==
  IF ~s.csvData.loaded \/ ~s.contextMenu.open THEN s
  ELSE LET headers == s.csvData.headers
           colIdx == indexOf(headers, s.contextMenu.col)
           insertIdx == IF position = "left" THEN colIdx ELSE colIdx + 1
           newName == freshColumnName(headers, "new_column", 1)
           newHeaders == spliceIn(headers, insertIdx, newName)
           newData == [r \in 1..Len(s.csvData.data) |->
                         WithCell(s.csvData.data[r], newName, Empty)]
       IN [pushHistory(s, newData, newHeaders, "Insert column \"" \o newName \o "\"")
             EXCEPT !.csvData.data = newData, !.csvData.headers = newHeaders]

\* handleDeleteColumn without the refusal to delete the last column.
handleDeleteColumn_NoGuard(s) ==
  IF ~s.csvData.loaded \/ ~s.contextMenu.open THEN s
  ELSE LET colToDelete == s.contextMenu.col
           newHeaders == SelectSeq(s.csvData.headers, LAMBDA h : h # colToDelete)
           newData == [r \in 1..Len(s.csvData.data) |->
                         WithoutCell(s.csvData.data[r], colToDelete)]
       IN [pushHistory(s, newData, newHeaders, "Delete column \"" \o colToDelete \o "\"")
             EXCEPT !.csvData.data = newData, !.csvData.headers = newHeaders]

handleDeleteColumn(s) ==
  IF ~s.csvData.loaded \/ ~s.contextMenu.open THEN s
  ELSE IF Len(s.csvData.headers) <= 1 THEN s
  ELSE LET colToDelete == s.contextMenu.col
           newHeaders == SelectSeq(s.csvData.headers, LAMBDA h : h # colToDelete)
           newData == [r \in 1..Len(s.csvData.data) |->
                         WithoutCell(s.csvData.data[r], colToDelete)]
       IN [pushHistory(s, newData, newHeaders, "Delete column \"" \o colToDelete \o "\"")
             EXCEPT !.csvData.data = newData, !.csvData.headers = newHeaders]

MenuItems == {"insert-row-above", "insert-row-below", "delete-row",
              "insert-col-left", "insert-col-right", "delete-col"}

\* A click on an item of the menu: item.action(); onClose().
menuItemClick(s, item) ==
  closeContextMenu(
    CASE item = "insert-row-above" -> handleInsertRow(s, "above")
      [] item = "insert-row-below" -> handleInsertRow(s, "below")
      [] item = "delete-row" -> handleDeleteRow(s)
      [] item = "insert-col-left" -> handleInsertColumn(s, "left")
      [] item = "insert-col-right" -> handleInsertColumn(s, "right")
      [] item = "delete-col" -> handleDeleteColumn(s))

(***************************************************************************)
(* Search and replace.                                                     *)
(***************************************************************************)
handleSearchChange(s, q) ==
  [s EXCEPT !.searchState.query = q, !.searchState.currentMatch = 0]

handleReplacementChange(s, r) == [s EXCEPT !.searchState.replacement = r]

\* handleFindNext stopping at the last match.
handleFindNext_NoWrap(s) ==
  [s EXCEPT !.searchState.currentMatch =
      IF s.searchState.matchCount > 0
      THEN Min(@ + 1, s.searchState.matchCount - 1) ELSE 0]

handleFindNext(s) ==
  [s EXCEPT !.searchState.currentMatch =
      IF s.searchState.matchCount > 0
      THEN (@ + 1) % s.searchState.matchCount ELSE 0]

handleFindPrev(s) ==
  [s EXCEPT !.searchState.currentMatch =
      IF s.searchState.matchCount > 0
      THEN (@ - 1 + s.searchState.matchCount) % s.searchState.matchCount ELSE 0]

handleReplaceOne(s) ==
  LET matches == searchMatches(s) IN
  IF ~s.csvData.loaded \/ Len(matches) = 0 THEN s
  ELSE IF s.searchState.currentMatch >= Len(matches) THEN s
  ELSE LET match == matches[s.searchState.currentMatch + 1]
           row == s.csvData.data[match.row + 1]
           oldVal == Cell(row, match.col)
           newVal == replaceFirst(oldVal, s.searchState.query, s.searchState.replacement)
           newData == [s.csvData.data EXCEPT ![match.row + 1] = WithCell(row, match.col, newVal)]
       IN [pushHistory(s, newData, s.csvData.headers,
                       "Replace in R" \o ToString(match.row + 1) \o ":" \o match.col)
             EXCEPT !.csvData.data = newData]

\* handleReplaceAll without the return on an empty match list.
handleReplaceAll_NoMatchGuard(s) ==
  IF ~s.csvData.loaded THEN s
  ELSE LET q == s.searchState.query
           r == s.searchState.replacement
           headers == s.csvData.headers
           newRowOf(row) ==
             [k \in DOMAIN row |->
                IF k \in Range(headers) /\ row[k] # Empty
                THEN replaceAll(row[k], q, r) ELSE row[k]]
           newData == [i \in 1..Len(s.csvData.data) |-> newRowOf(s.csvData.data[i])]
       IN [pushHistory(s, newData, headers,
                       "Replace all \"" \o Text(q) \o "\" -> \"" \o Text(r) \o "\"")
             EXCEPT !.csvData.data = newData]

handleReplaceAll(s) ==
  IF ~s.csvData.loaded \/ Len(searchMatches(s)) = 0 THEN s
  ELSE LET q == s.searchState.query
           r == s.searchState.replacement
           headers == s.csvData.headers
           newRowOf(row) ==
             [k \in DOMAIN row |->
                IF k \in Range(headers) /\ row[k] # Empty
                THEN replaceAll(row[k], q, r) ELSE row[k]]
           newData == [i \in 1..Len(s.csvData.data) |-> newRowOf(s.csvData.data[i])]
       IN [pushHistory(s, newData, headers,
                       "Replace all \"" \o Text(q) \o "\" -> \"" \o Text(r) \o "\"")
             EXCEPT !.csvData.data = newData]

\* The number in the message of handleReplaceAll.
replaceAllReported(s) == Len(searchMatches(s))

RECURSIVE Sum(_)
Sum(seq) == IF seq = <<>> THEN 0 ELSE Head(seq) + Sum(Tail(seq))

\* The occurrences of the query that handleReplaceAll replaces: those in the
\* cells under the headers.
occurrencesReplaced(s) ==
  LET cells == Cells(s.csvData.data, s.csvData.headers) IN
  Sum([k \in 1..Len(cells) |->
         occurrencesFrom(Cell(s.csvData.data[cells[k].row + 1], cells[k].col),
                         s.searchState.query, 1)])

(***************************************************************************)
(* Column statistics.                                                      *)
(***************************************************************************)
\* The detected type handleColumnStats stores.
handleColumnStats(s, header) ==
  IF ~s.csvData.loaded THEN s
  ELSE [s EXCEPT !.columnStatsDetectedType = detectColumnType(s.csvData.data, header)]

(***************************************************************************)
(* Diff.                                                                   *)
(***************************************************************************)
\* The list of changes DiffPreview builds.
Diff(original, current, headers) ==
  LET maxRows == Max(Len(original), Len(current))
      oldV(r, h) == IF r < Len(original) THEN Cell(original[r + 1], h) ELSE Empty
      newV(r, h) == IF r < Len(current) THEN Cell(current[r + 1], h) ELSE Empty
      all == [k \in 1..(maxRows * Len(headers)) |->
                LET r == (k - 1) \div Len(headers)
                    h == headers[((k - 1) % Len(headers)) + 1]
                IN [row |-> r, col |-> h, oldVal |-> oldV(r, h), newVal |-> newV(r, h)]]
  IN SelectSeq(all, LAMBDA c : c.oldVal # c.newVal)

\* The number of changes the toolbar shows.
changeCount(s) ==
  IF s.originalData.loaded /\ s.csvData.loaded
  THEN Cardinality({<<r, i>> \in (0..(Max(Len(s.originalData.data), Len(s.csvData.data)) - 1))
                                  \X (1..Len(s.csvData.headers)) :
          (IF r < Len(s.originalData.data)
           THEN Cell(s.originalData.data[r + 1], s.csvData.headers[i]) ELSE Empty)
          # (IF r < Len(s.csvData.data)
             THEN Cell(s.csvData.data[r + 1], s.csvData.headers[i]) ELSE Empty)})
  ELSE 0

(***************************************************************************)
(* Inputs of the model.                                                    *)
(***************************************************************************)
\* What the parser can deliver: two datasets, a result without columns.
FileAB ==
  [fields |-> <<"a", "b">>,
   data |-> << [a |-> <<"2">>, b |-> <<" ", "x">>],
               [a |-> <<"1">>, b |-> <<"A", "b", "B">>] >>,
   errors |-> {1}]

FileA ==
  [fields |-> <<"a">>,
   data |-> << [a |-> <<"b">>], [a |-> Empty], [a |-> <<"b">>] >>,
   errors |-> {}]

FileNoFields == [fields |-> <<>>, data |-> <<>>, errors |-> {}]

Files == {FileAB, FileA, FileNoFields}

EditValues == {<<"b">>}
Queries == {Empty, <<"B">>}
Replacements == {<<"x">>, <<"$", "&">>}

\* The inputs of the capacity specification: one cell, one value to write.
FileX == [fields |-> <<"a">>, data |-> << [a |-> <<"x">>] >>, errors |-> {}]

\* The File objects of the model: the name under which a parser result
\* arrives, and whether the parser fails on the file instead.
FileName(results) ==
  CASE results = FileAB -> "ab.csv"
    [] results = FileA -> "a.csv"
    [] results = FileX -> "x.csv"
    [] OTHER -> "file.csv"

File(results, fails) == [name |-> FileName(results), results |-> results, fails |-> fails]

(***************************************************************************)
(* Bookkeeping of the model, not state of the program: the operation that  *)
(* made the last step, and what has happened since the last load.          *)
(***************************************************************************)
\* op: the handler; pushes: its calls of pushHistory; row, col, value, old:
\* its arguments and the value of the cell it wrote; from, tail: the cursor
\* and the number of entries beyond it when it started.
Op(name, pushes, row, col, value, old) ==
  [op |-> name, pushes |-> pushes, row |-> row, col |-> col,
   value |-> value, old |-> old, from |-> -1, tail |-> 0]

NoOp == Op("none", 0, 0, NoCol, Empty, Empty)

\* pushes: entries pushed since the load, the initial one included, counted
\* up to MAX_HISTORY + 1 and only until the first undo; undone: whether an
\* undo took effect; first: the first operation that pushed.
FreshLoad == [pushes |-> 1, undone |-> FALSE, first |-> NoOp]
NothingLoaded == [pushes |-> 0, undone |-> FALSE, first |-> NoOp]

Tracked(op, s2) ==
  CASE op.op = "load" -> FreshLoad
    [] op.op \in {"loadRejected", "loadError"} -> sinceLoad
    [] OTHER ->
       [pushes |-> IF sinceLoad.undone THEN sinceLoad.pushes
                   ELSE Min(sinceLoad.pushes + s2.pushes, MAX_HISTORY + 1),
        undone |-> sinceLoad.undone \/ (op.op = "undo" /\ s2.historyIndex # historyIndex),
        first |-> IF sinceLoad.first = NoOp /\ s2.pushes > 0 THEN op ELSE sinceLoad.first]

(***************************************************************************)
(* Actions: one per handler.  Commit(op, s2) is the render that follows a  *)
(* handler whose state updates produce s2, the effect that synchronises    *)
(* the match count included.                                               *)
(***************************************************************************)
Commit(op, s2) ==
  LET s3 == syncMatchCount(App, s2) IN
  /\ csvData' = s3.csvData
  /\ originalData' = s3.originalData
  /\ history' = s3.history
  /\ historyIndex' = s3.historyIndex
  /\ sortCol' = s3.sortCol
  /\ sortDir' = s3.sortDir
  /\ contextMenu' = s3.contextMenu
  /\ searchState' = s3.searchState
  /\ columnStatsDetectedType' = s3.columnStatsDetectedType
  /\ editorTable' = s3.editorTable
  /\ resultTable' = s3.resultTable
  /\ timers' = s3.timers
  /\ isLoading' = s3.isLoading
  /\ loadingFileName' = s3.loadingFileName
  /\ parses' = s3.parses
  /\ looseDates' = looseDates
  /\ lastOp' = [op EXCEPT !.pushes = s2.pushes,
                          !.from = historyIndex,
                          !.tail = Len(history) - 1 - historyIndex]
  /\ sinceLoad' = Tracked(op, s2)
  /\ steps' = Min(steps + 1, MaxSteps)

Plain(name) == Op(name, 0, 0, NoCol, Empty, Empty)

\* What the last step is told about the end of a parse.
LoadOp(file) ==
  Plain(IF file.fails THEN "loadError"
        ELSE IF Len(file.results.fields) = 0 THEN "loadRejected" ELSE "load")

\* A file is dropped on the page or chosen in the file dialog.
ProcessFile(file) ==
  Commit(Op("processFile", 0, 0, NoCol, Empty, Empty), processFile(App, file))

\* An outstanding parse ends.
ParseDone(i) ==
  /\ i \in 1..Len(parses)
  /\ Commit(LoadOp(parses[i]), parseDone(App, i))

\* A file is loaded with nothing handled between the request and the end of
\* its parse: the parser completes with results.
ParseComplete(results) ==
  LET file == File(results, FALSE)
      requested == processFile(App, file)
  IN Commit(LoadOp(file), parseDone(requested, Len(requested.parses)))

\* A file is loaded in the same way and the parser fails on it.
ParseError ==
  LET file == File(FileNoFields, TRUE)
      requested == processFile(App, file)
  IN Commit(LoadOp(file), parseDone(requested, Len(requested.parses)))

\* Ctrl+Z, or the Undo button.
Undo == Commit(Plain("undo"), handleUndo(App))

\* Ctrl+Y, or the Redo button.
Redo == Commit(Plain("redo"), handleRedo(App))

\* A cell of the grid is edited and the edit committed.
CellEdit(rowIndex, header, value) ==
  /\ csvData.loaded
  /\ rowIndex < Len(csvData.data)
  /\ header \in Range(csvData.headers)
  /\ Commit(Op("cellEdit", 0, rowIndex, header, value,
               Cell(csvData.data[rowIndex + 1], header)),
            handleCellEdit(App, rowIndex, header, value))

\* A click on the sort control of a column; like every click outside the
\* context menu it also closes the menu.
SortClick(header) ==
  /\ csvData.loaded
  /\ header \in Range(csvData.headers)
  /\ Commit(Op("sort", 0, 0, header, Empty, Empty),
            closeContextMenu(handleSort(App, header)))

\* The Apply button of a repair template.
ApplyTemplate(templateId) ==
  /\ csvData.loaded
  /\ Commit(Op("template", 0, 0, templateId, Empty, Empty),
            closeContextMenu(handleApplyTemplate(App, templateId)))

\* Ctrl+Shift+R, or the Auto-Repair button.
AutoRepair == Commit(Plain("autoRepair"), handleAutoRepair(App))

\* A right click on a cell of the grid.
OpenContextMenu(row, col) ==
  /\ csvData.loaded
  /\ row < Len(csvData.data)
  /\ col \in Range(csvData.headers)
  /\ Commit(Op("contextMenu", 0, row, col, Empty, Empty),
            handleContextMenu(App, row, col))

\* A click on an item of the open context menu.
MenuItemClick(item) ==
  /\ csvData.loaded
  /\ contextMenu.open
  /\ Commit(Op(item, 0, contextMenu.row, contextMenu.col, Empty, Empty),
            menuItemClick(App, item))

\* A click on the statistics control of a column.
ColumnStats(header) ==
  /\ csvData.loaded
  /\ header \in Range(csvData.headers)
  /\ Commit(Op("columnStats", 0, 0, header, Empty, Empty),
            closeContextMenu(handleColumnStats(App, header)))

\* The body of the editor's table is scrolled to an offset of its range,
\* 0 to scrollHeight - clientHeight.
Scroll(top) ==
  /\ csvData.loaded
  /\ top # editorTable.scrollTop
  /\ top <= Max(0, Len(csvData.data) * ROW_HEIGHT - editorTable.containerHeight)
  /\ Commit(Op("scroll", 0, 0, NoCol, Empty, Empty),
            [App EXCEPT !.editorTable = handleScroll(@, top)])

\* The ResizeObserver reports a height of the editor's table.
Resize(height) ==
  /\ csvData.loaded
  /\ height # editorTable.containerHeight
  /\ Commit(Op("resize", 0, 0, NoCol, Empty, Empty),
            [App EXCEPT !.editorTable = resizeObserved(@, height)])

\* The editor's table renders its input.
Editing == csvData.loaded /\ inputShown(editorTable, csvData.data, csvData.headers)

\* What the last step is told about an operation of the input: the editing
\* cell, the draft and the value of the cell.
EditOp(name) ==
  Op(name, 0, editorTable.editingCell.row, editorTable.editingCell.col,
     editorTable.editValue,
     Cell(csvData.data[editorTable.editingCell.row + 1], editorTable.editingCell.col))

\* A double click on a cell of a row of the window of the editor's table.
\* With the input shown elsewhere its blur comes first, so that the double
\* click finds no input or is one in the editing cell.
DoubleClick(rowIndex, header) ==
  /\ csvData.loaded
  /\ header \in Range(csvData.headers)
  /\ rowIndex >= startRow(editorTable.scrollTop)
  /\ rowIndex < endRow(Len(csvData.data), editorTable.scrollTop, editorTable.containerHeight)
  /\ Editing => (editorTable.editingCell.row = rowIndex /\ editorTable.editingCell.col = header)
  /\ Commit(Op("doubleClick", 0, rowIndex, header, Empty, Empty),
            closeContextMenu(
              [App EXCEPT !.editorTable =
                 handleDoubleClick(@, TRUE, csvData.data, rowIndex, header)]))

\* A double click on a cell of the table of the query results, which is
\* mounted without editable; the results are those of a query for all rows.
ResultDoubleClick(rowIndex, header) ==
  /\ csvData.loaded
  /\ header \in Range(csvData.headers)
  /\ rowIndex < Len(csvData.data)
  /\ Commit(Op("resultDoubleClick", 0, rowIndex, header, Empty, Empty),
            closeContextMenu(
              [App EXCEPT !.resultTable =
                 handleDoubleClick(@, FALSE, csvData.data, rowIndex, header)]))

\* The draft is typed.
InputChange(value) ==
  /\ Editing
  /\ value # editorTable.editValue
  /\ Commit(EditOp("inputChange"), [App EXCEPT !.editorTable = inputChange(@, value)])

\* A key is pressed in the input.
KeyDownInEdit(key, shiftKey) ==
  /\ Editing
  /\ Commit(EditOp(IF key = "Tab" /\ shiftKey THEN "keyShiftTab" ELSE "key" \o key),
            handleKeyDownInEdit(App, key, shiftKey))

\* The input loses the focus.
Blur ==
  /\ Editing
  /\ Commit(EditOp("blur"), commitEdit(App))

\* The oldest pending timeout of handleKeyDownInEdit runs.
TimeoutRuns ==
  /\ timers # <<>>
  /\ Commit(Op("timeout", 0, Head(timers).row, Head(timers).col, Head(timers).value, Empty),
            timeoutRuns(App))

\* The search field is typed into.
SearchChange(q) ==
  /\ csvData.loaded
  /\ q # searchState.query
  /\ Commit(Op("searchChange", 0, 0, NoCol, q, Empty), handleSearchChange(App, q))

\* The replacement field is typed into.
ReplacementChange(r) ==
  /\ csvData.loaded
  /\ r # searchState.replacement
  /\ Commit(Op("replacementChange", 0, 0, NoCol, r, Empty), handleReplacementChange(App, r))

\* The buttons of the search bar are disabled while matchCount is 0.
FindNext ==
  /\ csvData.loaded
  /\ searchState.matchCount # 0
  /\ Commit(Plain("findNext"), closeContextMenu(handleFindNext(App)))

FindPrev ==
  /\ csvData.loaded
  /\ searchState.matchCount # 0
  /\ Commit(Plain("findPrev"), closeContextMenu(handleFindPrev(App)))

ReplaceOne ==
  /\ csvData.loaded
  /\ searchState.matchCount # 0
  /\ Commit(Plain("replaceOne"), closeContextMenu(handleReplaceOne(App)))

ReplaceAll ==
  /\ csvData.loaded
  /\ searchState.matchCount # 0
  /\ Commit(Plain("replaceAll"), closeContextMenu(handleReplaceAll(App)))

(***************************************************************************)
(* The full specification: every operation on the snapshot, the log and    *)
(* the search, MaxSteps steps deep.  None of them parses a date, so that    *)
(* the engine's choice is fixed here; the detector specification leaves it  *)
(* open.                                                                    *)
(***************************************************************************)
Init ==
  /\ csvData = NoCsv
  /\ originalData = NoOriginal
  /\ history = <<>>
  /\ historyIndex = -1
  /\ sortCol = NoCol
  /\ sortDir = NoDir
  /\ contextMenu = NoMenu
  /\ searchState = NoSearch
  /\ columnStatsDetectedType = NoDetected
  /\ editorTable = NewTable
  /\ resultTable = NewTable
  /\ timers = <<>>
  /\ isLoading = FALSE
  /\ loadingFileName = ""
  /\ parses = <<>>
  /\ looseDates = FALSE
  /\ lastOp = NoOp
  /\ sinceLoad = NothingLoaded
  /\ steps = 0

\* The steps left to explore.
Within == steps < MaxSteps

Next ==
  \/ Within /\ \E f \in Files : ParseComplete(f)
  \/ Within /\ ParseError
  \/ Within /\ Undo
  \/ Within /\ Redo
  \/ Within /\ AutoRepair
  \/ Within /\ \E r \in 0..(Len(csvData.data) - 1), h \in Range(csvData.headers),
                  v \in EditValues : CellEdit(r, h, v)
  \/ Within /\ \E h \in Range(csvData.headers) : SortClick(h)
  \/ Within /\ \E t \in TemplateIds : ApplyTemplate(t)
  \/ Within /\ \E r \in 0..(Len(csvData.data) - 1), h \in Range(csvData.headers) :
                  OpenContextMenu(r, h)
  \/ Within /\ \E item \in MenuItems : MenuItemClick(item)
  \/ Within /\ \E q \in Queries : SearchChange(q)
  \/ Within /\ \E r \in Replacements : ReplacementChange(r)
  \/ Within /\ FindNext
  \/ Within /\ FindPrev
  \/ Within /\ ReplaceOne
  \/ Within /\ ReplaceAll

Spec == Init /\ [][Next]_vars

(***************************************************************************)
(* The capacity specification: one cell edited over and over, undone and   *)
(* redone, with no bound on the number of operations, so that the log      *)
(* fills and evicts.                                                       *)
(***************************************************************************)
NextCap ==
  \/ ParseComplete(FileX)
  \/ \E v \in EditValues : CellEdit(0, "a", v)
  \/ Undo
  \/ Redo

SpecCap == Init /\ [][NextCap]_vars

(***************************************************************************)
(* The detector specification: a one-column dataset is loaded and the      *)
(* statistics of its column are opened.  The column holds na copies of a   *)
(* value, then a blank value, a row without the column and a value of      *)
(* spaces, then nb copies of a second value and nc copies of a third; the  *)
(* sizes put the share of the first value on either side of the threshold  *)
(* and the third value beyond the sample.  Whether Date.parse accepts a    *)
(* string that is not in the ISO format is the engine's choice.            *)
(***************************************************************************)
VEmail == <<"a", "@", "b", ".", "f", "o">>
VUrl == <<"w", "w", "w", ".", "a", ".", "b", "o">>
VPhone == <<"1", "2", "3", "4", "5", "6", "7">>
VCurrency == <<"$", "5">>
VIsoDate == <<"2", "0", "2", "4", "-", "0", "1", "-", "1", "5">>
VLooseDate == <<"2", "0", "2", "4", "-", "1", "-", "5">>
VNumber == <<" ", "1", "2", " ">>
VText == <<"x">>

DetectValues == {VEmail, VUrl, VPhone, VCurrency, VIsoDate, VLooseDate, VNumber, VText}
DetectSizes == {<<0, 0, 0>>, <<3, 2, 0>>, <<2, 3, 0>>, <<120, 80, 5>>, <<119, 81, 5>>}

Copies(v, n) == [i \in 1..n |-> [a |-> v]]

DetectFile(va, na, vb, nb, vc, nc) ==
  [fields |-> <<"a">>,
   data |-> Copies(va, na)
            \o << [a |-> Empty], [z |-> VText], [a |-> <<" ", " ">>] >>
            \o Copies(vb, nb) \o Copies(vc, nc),
   errors |-> {}]

DetectFiles ==
  {DetectFile(va, n[1], vb, n[2], vc, n[3]) :
     va \in DetectValues, vb \in {VNumber, VText, VPhone}, vc \in {VEmail},
     n \in DetectSizes}

InitDetect ==
  /\ csvData = NoCsv
  /\ originalData = NoOriginal
  /\ history = <<>>
  /\ historyIndex = -1
  /\ sortCol = NoCol
  /\ sortDir = NoDir
  /\ contextMenu = NoMenu
  /\ searchState = NoSearch
  /\ columnStatsDetectedType = NoDetected
  /\ editorTable = NewTable
  /\ resultTable = NewTable
  /\ timers = <<>>
  /\ isLoading = FALSE
  /\ loadingFileName = ""
  /\ parses = <<>>
  /\ looseDates \in BOOLEAN
  /\ lastOp = NoOp
  /\ sinceLoad = NothingLoaded
  /\ steps = 0

NextDetect ==
  \/ ~csvData.loaded /\ \E f \in DetectFiles : ParseComplete(f)
  \/ steps < DetectSteps /\ \E h \in Range(csvData.headers) : ColumnStats(h)

SpecDetect == InitDetect /\ [][NextDetect]_vars

(***************************************************************************)
(* The window specification: datasets of 0, 1 and 20 rows, of which an     *)
(* auto-repair leaves 0, 1 and 2, are loaded; the editor's table is        *)
(* scrolled and resized; auto-repair, undo and redo, all three reachable   *)
(* from the keyboard, shrink and grow the rows under a retained offset.    *)
(***************************************************************************)
WindowSteps == 4

BlankRows(n) == [i \in 1..n |-> [a |-> Empty]]

WindowFiles ==
  {[fields |-> <<"a">>, data |-> <<>>, errors |-> {}],
   [fields |-> <<"a">>, data |-> << [a |-> <<"x">>] >>, errors |-> {}],
   [fields |-> <<"a">>,
    data |-> << [a |-> <<"x">>] >> \o BlankRows(18) \o << [a |-> <<"y">>] >>,
    errors |-> {}]}

Heights == {0, 36, 100, InitialHeight}
ScrollOffsets == {0, 10, 36, 190, 216, 620, 684}

NextWindow ==
  \/ steps < WindowSteps /\ \E f \in WindowFiles : ParseComplete(f)
  \/ steps < WindowSteps /\ \E top \in ScrollOffsets : Scroll(top)
  \/ steps < WindowSteps /\ \E height \in Heights : Resize(height)
  \/ steps < WindowSteps /\ AutoRepair
  \/ steps < WindowSteps /\ Undo
  \/ steps < WindowSteps /\ Redo

SpecWindow == Init /\ [][NextWindow]_vars

(***************************************************************************)

(* The edit specification: the cell edit controller of the editor's table  *)
(* (double click, typing, Enter, Tab, Shift+Tab, Escape, blur, the         *)
(* timeouts of the re-entry) next to loads and the operations of the page  *)
(* that the keyboard reaches while the input has the focus: undo, redo and *)
(* auto-repair.                                                            *)
(***************************************************************************)
EditSteps == 5

Drafts == {<<"b">>, <<"x">>}
Keys == {<<"Enter", FALSE>>, <<"Escape", FALSE>>, <<"Tab", FALSE>>, <<"Tab", TRUE>>}

NextEdit ==
  \/ steps < EditSteps /\ \E f \in {FileAB, FileA} : ParseComplete(f)
  \/ steps < EditSteps /\ \E r \in 0..(Len(csvData.data) - 1), h \in Range(csvData.headers) :
                             DoubleClick(r, h)
  \/ steps < EditSteps /\ \E r \in 0..(Len(csvData.data) - 1), h \in Range(csvData.headers) :
                             ResultDoubleClick(r, h)
  \/ steps < EditSteps /\ \E v \in Drafts : InputChange(v)
  \/ steps < EditSteps /\ \E k \in Keys : KeyDownInEdit(k[1], k[2])
  \/ steps < EditSteps /\ Blur
  \/ TimeoutRuns
  \/ steps < EditSteps /\ Undo
  \/ steps < EditSteps /\ Redo
  \/ steps < EditSteps /\ AutoRepair

SpecEdit == Init /\ [][NextEdit]_vars

(***************************************************************************)

(* The load specification: files are handed to processFile while parses    *)
(* are outstanding (a drop on the page reaches handleDrop through the       *)
(* loading overlay), and the outstanding parses, each in a worker of its    *)
(* own, end in any order; auto-repair and undo, both on the keyboard, work  *)
(* on whatever dataset is active.                                           *)
(***************************************************************************)
LoadSteps == 4

LoadFiles == {File(FileAB, FALSE), File(FileA, FALSE), File(FileX, FALSE)}

NextLoad ==
  \/ steps < LoadSteps /\ \E file \in LoadFiles : ProcessFile(file)
  \/ \E i \in 1..Len(parses) : ParseDone(i)
  \/ steps < LoadSteps /\ AutoRepair
  \/ steps < LoadSteps /\ Undo

SpecLoad == Init /\ [][NextLoad]_vars

(***************************************************************************)

(* The claims.                                                             *)
(***************************************************************************)
\* The states that undo after undo leads through, from s to the first state
\* an undo leaves as it is.
RECURSIVE undoChain(_)
undoChain(s) ==
  LET u == handleUndo(s) IN
  IF u = s THEN <<s>> ELSE <<s>> \o undoChain(u)

InitialLabel == "Initial load"

\* C1: the history log never holds more than MAX_HISTORY entries.
C1_HistoryBounded == Len(history) <= MAX_HISTORY

\* A push onto a full log has happened: MAX_HISTORY + 1 pushes, no undo.
C1_Witness ==
  /\ Len(history) = MAX_HISTORY
  /\ sinceLoad.pushes = MAX_HISTORY + 1
  /\ ~sinceLoad.undone
  /\ lastOp.op = "cellEdit"

\* C2: while a dataset is loaded the cursor is an index of the log.
C2_CursorValid ==
  csvData.loaded => 0 <= historyIndex /\ historyIndex < Len(history)

\* The oldest entry has been evicted, undos have been made and the cursor
\* is back at the last index of a full log.
C2_Witness ==
  /\ csvData.loaded
  /\ sinceLoad.undone
  /\ Len(history) = MAX_HISTORY
  /\ history[1].label # InitialLabel
  /\ historyIndex = MAX_HISTORY - 1

\* C3: where undo is enabled, undo and then redo leave the displayed
\* snapshot (headers and rows) and the cursor as they were.
C3_UndoRedoRestoresDisplayed ==
  csvData.loaded /\ canUndo(App) =>
    LET after == handleRedo(handleUndo(App)) IN
    /\ Displayed(after) = Displayed(App)
    /\ after.historyIndex = historyIndex

\* The entries of the log up to the cursor: what a push keeps.
Kept == SubSeq(history, 1, historyIndex + 1)

\* The step is an operation that called pushHistory.
Pushed == lastOp'.pushes > 0

\* C4: a push discards every entry beyond the cursor.  After a step that
\* pushed, the cursor is the last index of the log, redo is disabled, and
\* the log is the entries up to the old cursor (less the oldest one when the
\* log was full) and the one new entry: no entry that was beyond the cursor
\* is in it.
C4_PushTruncates ==
  [][Pushed =>
       /\ historyIndex' = Len(history') - 1
       /\ ~canRedo(App')
       /\ handleRedo(App') = App'
       /\ history' = (IF Len(Kept) = MAX_HISTORY THEN Tail(Kept) ELSE Kept)
                       \o <<history'[Len(history')]>>
       /\ history'[Len(history')] =
            [data |-> csvData'.data, headers |-> csvData'.headers,
             label |-> history'[Len(history')].label]]_vars

\* A push has been made with entries beyond the cursor, that is after undo.
C4_Witness ==
  /\ lastOp.pushes = 1
  /\ lastOp.tail > 0
  /\ Len(history) = lastOp.from + 2
  /\ historyIndex = Len(history) - 1

\* C5: the initial-load entry is the oldest entry of the log until
\* MAX_HISTORY + 1 pushes have been made since the load with no undo in
\* between (the initial entry and MAX_HISTORY operations), and is in the log
\* no more from then on; while it is in the log, historyIndex undos make it
\* current and displayed, and once it is not, no number of undos does.
C5_EvictionOfInitialLoad ==
  csvData.loaded =>
    /\ \A i \in 2..Len(history) : history[i].label # InitialLabel
    /\ ~sinceLoad.undone =>
         (history[1].label = InitialLabel <=> sinceLoad.pushes <= MAX_HISTORY)
    /\ LET chain == undoChain(App) IN
       /\ Len(chain) = historyIndex + 1
       /\ \A k \in 1..Len(chain) :
            /\ chain[k].historyIndex = historyIndex - (k - 1)
            /\ Entry(chain[k], chain[k].historyIndex).label = InitialLabel
                 <=> (history[1].label = InitialLabel /\ k = Len(chain))
       /\ history[1].label = InitialLabel =>
            Displayed(chain[Len(chain)]) =
              [headers |-> history[1].headers, data |-> originalData.data]

\* The log is full of edits, the initial-load entry evicted, no undo made.
C5_Witness ==
  /\ csvData.loaded
  /\ ~sinceLoad.undone
  /\ sinceLoad.pushes = MAX_HISTORY + 1
  /\ history[1].label = "Edit R1:a"
  /\ historyIndex = MAX_HISTORY - 1

\* The step is an operation of one of the kinds that commit a snapshot,
\* made on a loaded dataset: a column delete that leaves a column, a replace
\* with matches to replace.
PushKinds ==
  {"cellEdit", "insert-row-above", "insert-row-below", "delete-row",
   "insert-col-left", "insert-col-right", "delete-col", "template",
   "autoRepair", "replaceOne", "replaceAll"}

Accepted ==
  /\ csvData.loaded
  /\ lastOp'.op \in PushKinds
  /\ lastOp'.op = "delete-col" => Len(csvData.headers) > 1
  /\ lastOp'.op \in {"replaceOne", "replaceAll"} => Len(searchMatches(App)) > 0

\* The step is a template apply that reports no change.
NothingToFix ==
  /\ lastOp'.op = "template"
  /\ applyTemplate(lastOp'.col, csvData.data, csvData.headers).changes = 0

\* C6, as stated: each operation of the kinds that commit a snapshot grows
\* the log and the cursor by exactly one, below capacity.
C6_OneEntryAppended ==
  [][Accepted /\ Len(history) < MAX_HISTORY =>
       /\ Len(history') = Len(history) + 1
       /\ historyIndex' = historyIndex + 1]_vars

\* C6, amended: each such operation, a template apply only when it reports
\* a change, calls pushHistory exactly once; below capacity the cursor grows
\* by exactly one and the log becomes the entries up to the old cursor and
\* one new entry, so that its length grows by exactly one when no entry was
\* beyond the cursor.  A template apply that reports no change pushes nothing.
C6_OnePushPerOperation ==
  [][/\ Accepted /\ ~NothingToFix /\ Len(history) < MAX_HISTORY =>
          /\ lastOp'.pushes = 1
          /\ historyIndex' = historyIndex + 1
          /\ Len(history') = historyIndex + 2
          /\ SubSeq(history', 1, historyIndex + 1) = Kept
          /\ lastOp'.tail = 0 => Len(history') = Len(history) + 1
     /\ csvData.loaded /\ NothingToFix =>
          /\ lastOp'.pushes = 0
          /\ history' = history
          /\ historyIndex' = historyIndex
          /\ csvData' = csvData]_vars

\* A template has been applied, with changes, with entries beyond the cursor.
C6_Witness ==
  /\ lastOp.op = "template"
  /\ lastOp.pushes = 1
  /\ lastOp.tail > 0
  /\ historyIndex = lastOp.from + 1

\* C7: an undo made right after an operation that pushed displays the
\* snapshot that was displayed before the operation.
C7_UndoRevertsOperation ==
  [][Pushed => Displayed(handleUndo(App')) = Displayed(App)]_vars

\* C8: undo takes effect iff the cursor is above 0, and then moves the
\* cursor back by one and displays the entry there; redo takes effect iff
\* the cursor is below the last index, and then moves the cursor forward by
\* one and displays the entry there; an undo or redo that takes no effect
\* leaves the log, the cursor and the displayed snapshot as they are; neither
\* changes the log.
C8_UndoRedoSteps ==
  [][/\ lastOp'.op = "undo" =>
          IF historyIndex > 0
          THEN /\ historyIndex' = historyIndex - 1
               /\ Displayed(App') =
                    [headers |-> history[historyIndex].headers,
                     data |-> history[historyIndex].data]
          ELSE UNCHANGED <<historyIndex, csvData>>
     /\ lastOp'.op = "redo" =>
          IF historyIndex < Len(history) - 1
          THEN /\ historyIndex' = historyIndex + 1
               /\ Displayed(App') =
                    [headers |-> history[historyIndex + 2].headers,
                     data |-> history[historyIndex + 2].data]
          ELSE UNCHANGED <<historyIndex, csvData>>
     /\ lastOp'.op \in {"undo", "redo"} => history' = history]_vars

\* An undo has been made from the middle of the log: both undo and redo are
\* enabled after it.
C8_Witness ==
  /\ lastOp.op = "undo"
  /\ historyIndex = lastOp.from - 1
  /\ canUndo(App)
  /\ canRedo(App)

\* C9: a click on the sort control of a column changes neither the log nor
\* the cursor; clicks on one column go from ascending to descending to
\* unsorted, a click on another column starts at ascending; the step to
\* unsorted displays the rows of the oldest entry of the log.
C9_SortOutsideHistory ==
  [][lastOp'.op = "sort" =>
       /\ history' = history
       /\ historyIndex' = historyIndex
       /\ csvData'.headers = csvData.headers
       /\ sortCol # lastOp'.col => sortCol' = lastOp'.col /\ sortDir' = "asc"
       /\ sortCol = lastOp'.col /\ sortDir = "asc" =>
            sortCol' = lastOp'.col /\ sortDir' = "desc"
       /\ sortCol = lastOp'.col /\ sortDir # "asc" =>
            /\ sortDir = "desc"
            /\ sortCol' = NoCol
            /\ sortDir' = NoDir
            /\ csvData'.data = history[1].data]_vars

\* The third click on a column with the cursor above 0: the rows displayed
\* are those of the oldest entry and not those of the entry at the cursor.
C9_Witness ==
  /\ lastOp.op = "sort"
  /\ sortDir = NoDir
  /\ historyIndex > 0
  /\ csvData.data = history[1].data
  /\ csvData.data # Entry(App, historyIndex).data

\* The list of changes the diff view shows.
Changes == Diff(originalData.data, csvData.data, csvData.headers)

\* C10: the diff of the original and the current rows is empty while nothing
\* has been committed since the load, and after exactly one cell edit it is
\* the one entry of that edit.
C10_DiffMatchesEdits ==
  csvData.loaded =>
    /\ sinceLoad.pushes = 1 => Changes = <<>>
    /\ sinceLoad.pushes = 2 /\ ~sinceLoad.undone /\ sinceLoad.first.op = "cellEdit" =>
         Changes = <<[row |-> sinceLoad.first.row, col |-> sinceLoad.first.col,
                      oldVal |-> sinceLoad.first.old,
                      newVal |-> sinceLoad.first.value]>>

\* C11: the count ReplaceAll reports is the number of occurrences of the
\* query it replaced: a cell that holds the query k times counts k.
C11_ReplaceAllCountsOccurrences ==
  [][lastOp'.op = "replaceAll" /\ lastOp'.pushes = 1 =>
       replaceAllReported(App) = occurrencesReplaced(App)]_vars

\* The part of v from start on with every occurrence of q, found left to
\* right without overlap and without regard to case, replaced by the text r
\* as it stands.
RECURSIVE literalReplaceFrom(_, _, _, _)
literalReplaceFrom(v, q, r, start) ==
  LET i == matchFrom(v, q, start) IN
  IF i = 0 THEN SubSeq(v, start, Len(v))
  ELSE SubSeq(v, start, i - 1) \o r \o literalReplaceFrom(v, q, r, i + Len(q))

\* C12: a ReplaceAll with at least one match puts, in every cell under the
\* headers, the replacement in the place of every occurrence of the query,
\* so that a cell without an occurrence is unchanged; it keeps the number
\* and the order of the rows, the keys of each row and the headers; and it
\* pushes once, the snapshot it displays.
C12_ReplaceAllEveryOccurrence ==
  [][lastOp'.op = "replaceAll" /\ Len(searchMatches(App)) > 0 =>
       /\ lastOp'.pushes = 1
       /\ csvData'.headers = csvData.headers
       /\ Len(csvData'.data) = Len(csvData.data)
       /\ \A k \in 1..Len(csvData.data) :
            /\ DOMAIN csvData'.data[k] = DOMAIN csvData.data[k]
            /\ \A h \in DOMAIN csvData.data[k] :
                 csvData'.data[k][h] =
                   IF h \in Range(csvData.headers)
                   THEN literalReplaceFrom(csvData.data[k][h], searchState.query,
                                           searchState.replacement, 1)
                   ELSE csvData.data[k][h]
       /\ Entry(App', historyIndex').data = csvData'.data
       /\ Entry(App', historyIndex').headers = csvData'.headers]_vars

\* C13: where the match list is empty, a ReplaceOne and a ReplaceAll change
\* nothing: no push, the log, the cursor and the displayed snapshot as they
\* were.
C13_ReplaceNoOp ==
  Len(searchMatches(App)) = 0 =>
    /\ handleReplaceOne(App) = App
    /\ handleReplaceAll(App) = App
    /\ handleReplaceOne(App).pushes = 0
    /\ handleReplaceAll(App).pushes = 0

\* A dataset is displayed of which no cell contains the query typed, after a
\* ReplaceAll has removed the matches there were.
C13_Witness ==
  /\ csvData.loaded
  /\ Len(csvData.data) > 0
  /\ searchState.query # Empty
  /\ lastOp.op = "replaceAll"
  /\ Len(searchMatches(App)) = 0
  /\ handleReplaceAll(App) = App

\* The match selected in the search bar.
selectedMatch == searchMatches(App)[searchState.currentMatch + 1]

\* C14: a ReplaceOne writes the cell of the selected match and no other: in
\* that cell the replacement stands in the place of the first occurrence of
\* the query and the text after it is kept; every other cell, the number of
\* rows and the headers are unchanged; one snapshot is pushed, the one
\* displayed, labelled with the row and the column of the cell.
C14_ReplaceOneSelectedCell ==
  [][lastOp'.op = "replaceOne" =>
       LET m == selectedMatch
           old == Cell(csvData.data[m.row + 1], m.col)
           i == firstMatch(old, searchState.query)
       IN /\ lastOp'.pushes = 1
          /\ i > 0
          /\ csvData'.headers = csvData.headers
          /\ Len(csvData'.data) = Len(csvData.data)
          /\ \A k \in 1..Len(csvData.data) :
               \A h \in (DOMAIN csvData.data[k]) \union (DOMAIN csvData'.data[k]) :
                 Cell(csvData'.data[k], h) =
                   IF k = m.row + 1 /\ h = m.col
                   THEN SubSeq(old, 1, i - 1) \o searchState.replacement
                          \o SubSeq(old, i + Len(searchState.query), Len(old))
                   ELSE Cell(csvData.data[k], h)
          /\ Entry(App', historyIndex') =
               [data |-> csvData'.data, headers |-> csvData'.headers,
                label |-> "Replace in R" \o ToString(m.row + 1) \o ":" \o m.col]]_vars

\* C15: with an empty query the match list and the set of highlighted cells
\* are empty, whatever the dataset, and the match count is 0.
C15_EmptyQueryNoMatches ==
  searchState.query = Empty =>
    /\ searchMatches(App) = <<>>
    /\ highlightCells(App) = {}
    /\ searchState.matchCount = 0
    /\ searchState.currentMatch = 0

\* The query has been cleared over a dataset that has cells, an empty one
\* among them.
C15_Witness ==
  /\ csvData.loaded
  /\ lastOp.op = "searchChange"
  /\ searchState.query = Empty
  /\ \E k \in 1..Len(csvData.data) : \E h \in Range(csvData.headers) :
       Cell(csvData.data[k], h) = Empty
  /\ \E k \in 1..Len(csvData.data) : \E h \in Range(csvData.headers) :
       Cell(csvData.data[k], h) # Empty

\* v contains q somewhere, letters compared without regard to case.
ContainsIgnoringCase(v, q) ==
  \E i \in 1..(Len(v) - Len(q) + 1) :
    \A j \in 1..Len(q) : LowerChar(v[i + j - 1]) = LowerChar(q[j])

\* C16: with a non-empty query the match list over the displayed snapshot
\* holds exactly the cells whose value contains the query without regard to
\* case, each once, by ascending row and within a row in header order; the
\* match count is its length, the selected match is one of its entries, and
\* the highlighted cells are its cells.  As an invariant it holds after
\* every operation.
C16_MatchListExact ==
  csvData.loaded /\ searchState.query # Empty =>
    LET m == searchMatches(App)
        headers == csvData.headers
    IN /\ \A k \in 1..Len(m) :
            /\ m[k].row \in 0..(Len(csvData.data) - 1)
            /\ m[k].col \in Range(headers)
       /\ \A r \in 0..(Len(csvData.data) - 1) : \A h \in Range(headers) :
            (\E k \in 1..Len(m) : m[k] = [row |-> r, col |-> h])
              <=> ContainsIgnoringCase(Cell(csvData.data[r + 1], h), searchState.query)
       /\ \A k \in 1..Len(m) : \A l \in (k + 1)..Len(m) :
            \/ m[k].row < m[l].row
            \/ /\ m[k].row = m[l].row
               /\ indexOf(headers, m[k].col) < indexOf(headers, m[l].col)
       /\ searchState.matchCount = Len(m)
       /\ Len(m) > 0 => searchState.currentMatch \in 0..(Len(m) - 1)
       /\ highlightCells(App) =
            {ToString(c.row) \o ":" \o c.col :
               c \in {[row |-> r, col |-> h] :
                        r \in 0..(Len(csvData.data) - 1), h \in Range(headers)}
                    \cap Range(m)}

\* A sort has moved the matching rows: the two matches are now in the second
\* and the third row.
C16_Witness ==
  /\ csvData.loaded
  /\ searchState.query # Empty
  /\ lastOp.op = "sort"
  /\ Len(searchMatches(App)) = 2
  /\ searchMatches(App)[1].row = 1
  /\ searchMatches(App)[2].row = 2

\* k FindNext in a row.
RECURSIVE findNextTimes(_, _)
findNextTimes(s, k) == IF k = 0 THEN s ELSE findNextTimes(handleFindNext(s), k - 1)

\* C17: with n > 0 matches FindNext selects the match after the selected
\* one, the first after the last, and FindPrev the match before it, the last
\* before the first; each undoes the other and n FindNext come back to the
\* match they started from; with no match both leave the selection at 0.
\* Neither changes anything but the selection.
C17_NavigationCyclic ==
  LET n == searchState.matchCount
      i == searchState.currentMatch
      next == handleFindNext(App)
      prev == handleFindPrev(App)
  IN /\ next = [App EXCEPT !.searchState.currentMatch = next.searchState.currentMatch]
     /\ prev = [App EXCEPT !.searchState.currentMatch = prev.searchState.currentMatch]
     /\ IF n > 0
        THEN /\ i \in 0..(n - 1)
             /\ next.searchState.currentMatch = (IF i = n - 1 THEN 0 ELSE i + 1)
             /\ prev.searchState.currentMatch = (IF i = 0 THEN n - 1 ELSE i - 1)
             /\ handleFindPrev(next) = App
             /\ handleFindNext(prev) = App
             /\ findNextTimes(App, n) = App
             /\ \A k \in 1..(n - 1) : findNextTimes(App, k) # App
        ELSE /\ next.searchState.currentMatch = 0
             /\ prev.searchState.currentMatch = 0

\* A FindNext has wrapped from the last of several matches to the first.
C17_Witness ==
  /\ lastOp.op = "findNext"
  /\ searchState.matchCount >= 2
  /\ searchState.currentMatch = 0


\* The positions of the rows whose value under header is not blank, and those
\* of them that fall among the first SampleLimit such rows.
nonEmptyRows(data, header) ==
  {i \in 1..Len(data) : trim(Cell(data[i], header)) # Empty}

sampledRows(data, header) ==
  LET rows == nonEmptyRows(data, header) IN
  IF Cardinality(rows) <= SampleLimit THEN rows
  ELSE LET last == CHOOSE i \in rows : Cardinality({j \in rows : j <= i}) = SampleLimit
       IN {i \in rows : i <= last}

\* The number of the values at rows that the classifier accepts.
accepted(type, rows, data, header) ==
  Cardinality({i \in rows : patternTest(type, Cell(data[i], header))})

\* The classifier reaches the threshold of three fifths on the values at rows.
qualifies(type, rows, data, header) ==
  Threshold.den * accepted(type, rows, data, header) >= Threshold.num * Cardinality(rows)

\* The reference rule: no value that is not blank gives text with confidence
\* 0; otherwise the first classifier in the order of TYPE_PATTERNS that
\* qualifies on the sample, with its share of the sample; text with
\* confidence 1 if none does.
referenceType(data, header) ==
  LET rows == sampledRows(data, header)
      reached == {k \in 1..Len(TYPE_PATTERNS) : qualifies(TYPE_PATTERNS[k], rows, data, header)}
  IN IF rows = {} THEN [type |-> "text", confidence |-> [num |-> 0, den |-> 1]]
     ELSE IF reached = {} THEN [type |-> "text", confidence |-> [num |-> 1, den |-> 1]]
     ELSE LET k == CHOOSE x \in reached : \A y \in reached : x <= y IN
          [type |-> TYPE_PATTERNS[k],
           confidence |-> [num |-> accepted(TYPE_PATTERNS[k], rows, data, header),
                           den |-> Cardinality(rows)]]

\* The rows up to the last sampled one.
sampledPrefix(data, header) ==
  LET rows == sampledRows(data, header) IN
  SubSeq(data, 1, IF rows = {} THEN 0 ELSE CHOOSE i \in rows : \A j \in rows : j <= i)

\* C18: the type detected for a column is the one the reference rule gives
\* (the sample is the first min(200, n) values that are not blank; no such
\* value gives text with confidence 0; the first classifier among email,
\* URL, phone, currency, date, number whose share of the sample is at least
\* 0.6 wins, whatever the later ones reach; none gives text with confidence
\* 1), the rows after the last sampled one have no influence on it, and the
\* statistics of a column show it.
C18_DetectMatchesReference ==
  csvData.loaded =>
    /\ \A h \in Range(csvData.headers) :
         LET detected == detectColumnType(csvData.data, h) IN
         /\ detected = referenceType(csvData.data, h)
         /\ detected = detectColumnType(sampledPrefix(csvData.data, h), h)
    /\ lastOp.op = "columnStats" =>
         columnStatsDetectedType = referenceType(csvData.data, lastOp.col)

\* The statistics of a column with more than 200 values are open: phone is
\* detected with exactly three fifths of the sample, number accepts the
\* whole sample, and the values beyond the sample are of another type.
C18_Witness ==
  /\ lastOp.op = "columnStats"
  /\ Cardinality(nonEmptyRows(csvData.data, lastOp.col)) > SampleLimit
  /\ columnStatsDetectedType = [type |-> "phone", confidence |-> [num |-> 120, den |-> 200]]
  /\ accepted("number", sampledRows(csvData.data, lastOp.col), csvData.data, lastOp.col)
       = SampleLimit

\* C19: a column delete asked for on a snapshot of exactly one column pushes
\* nothing and leaves the headers, the rows, the cursor and the log as they
\* were; and the displayed snapshot of a loaded dataset has at least one
\* header in every state.
C19_LastColumnKept ==
  /\ [](csvData.loaded => Len(csvData.headers) >= 1)
  /\ [][(lastOp'.op = "delete-col" /\ Len(csvData.headers) = 1) =>
          /\ lastOp'.pushes = 0
          /\ csvData' = csvData
          /\ history' = history
          /\ historyIndex' = historyIndex]_vars

\* A column delete was asked for on the only column and refused.
C19_Witness ==
  /\ lastOp.op = "delete-col"
  /\ lastOp.pushes = 0
  /\ lastOp.col \in Range(csvData.headers)
  /\ Len(csvData.headers) = 1

\* C20: a row insert whose anchor i is a row of the N rows displayed gives
\* N + 1 rows and pushes one entry, which holds them; the row at i for
\* "above" and at i + 1 for "below" is blank, one empty value per header;
\* the rows before it are the rows that were at their index and the rows
\* after it the rows that were one index lower.
C20_InsertRowShifts ==
  [][(lastOp'.op \in {"insert-row-above", "insert-row-below"}
        /\ contextMenu.row < Len(csvData.data)) =>
       LET old == csvData.data
           new == csvData'.data
           at == IF lastOp'.op = "insert-row-above"
                 THEN contextMenu.row + 1 ELSE contextMenu.row + 2
       IN /\ Len(new) = Len(old) + 1
          /\ new[at] = [h \in Range(csvData.headers) |-> Empty]
          /\ \A r \in 1..(at - 1) : new[r] = old[r]
          /\ \A r \in (at + 1)..Len(new) : new[r] = old[r - 1]
          /\ csvData'.headers = csvData.headers
          /\ lastOp'.pushes = 1
          /\ history'[historyIndex' + 1].data = new]_vars

\* A blank row was inserted above the first of several rows.
C20_Witness ==
  /\ lastOp.op = "insert-row-above"
  /\ lastOp.row = 0
  /\ lastOp.pushes = 1
  /\ Len(csvData.data) >= 3
  /\ csvData.data[1] = [h \in Range(csvData.headers) |-> Empty]
  /\ csvData.data[2] # csvData.data[1]

\* No name occurs twice in headers.
pairwiseDistinct(headers) ==
  \A i, j \in 1..Len(headers) : headers[i] = headers[j] => i = j

\* The names new_column, new_column_1, new_column_2, ... in that order.
candidateName(n) == IF n = 0 THEN "new_column" ELSE "new_column_" \o ToString(n)

\* The operations that display another snapshot instead of changing the
\* displayed one.
SnapshotChanges == {"load", "undo", "redo"}

\* C21: the headers of the displayed snapshot and of every entry of the log
\* are pairwise distinct in every state.  A column insert whose anchor is a
\* header takes the first of new_column, new_column_1, ... that is not a
\* header, puts it at the anchor's index (left) or one after it (right),
\* gives every row the empty value for it and keeps the order of the other
\* headers and the other cell values.  No other operation on the displayed
\* snapshot adds or renames a header: it keeps the headers, or it is the
\* column delete and removes the anchor.
C21_HeadersDistinct ==
  /\ [](/\ pairwiseDistinct(csvData.headers)
        /\ \A k \in 1..Len(history) : pairwiseDistinct(history[k].headers))
  /\ [][(lastOp'.op \in {"insert-col-left", "insert-col-right"}
           /\ contextMenu.col \in Range(csvData.headers)) =>
          LET old == csvData.headers
              new == csvData'.headers
              at == indexOf(old, contextMenu.col)
                      + (IF lastOp'.op = "insert-col-left" THEN 1 ELSE 2)
              n == CHOOSE x \in 0..Len(old) :
                     /\ candidateName(x) \notin Range(old)
                     /\ \A y \in 0..(x - 1) : candidateName(y) \in Range(old)
          IN /\ Len(new) = Len(old) + 1
             /\ new[at] = candidateName(n)
             /\ \A i \in 1..(at - 1) : new[i] = old[i]
             /\ \A i \in (at + 1)..Len(new) : new[i] = old[i - 1]
             /\ Len(csvData'.data) = Len(csvData.data)
             /\ \A r \in 1..Len(csvData.data) :
                  /\ Cell(csvData'.data[r], new[at]) = Empty
                  /\ new[at] \in DOMAIN csvData'.data[r]
                  /\ \A h \in Range(old) :
                       Cell(csvData'.data[r], h) = Cell(csvData.data[r], h)]_vars
  /\ [][(lastOp'.op \notin SnapshotChanges \cup {"insert-col-left", "insert-col-right"}) =>
          \/ csvData'.headers = csvData.headers
          \/ /\ lastOp'.op = "delete-col"
             /\ csvData'.headers
                  = SelectSeq(csvData.headers, LAMBDA h : h # contextMenu.col)]_vars

\* A second column was inserted: new_column was a header, and the column
\* right of the anchor is new_column_1.
C21_Witness ==
  /\ lastOp.op = "insert-col-right"
  /\ "new_column" \in Range(csvData.headers)
  /\ indexOf(csvData.headers, "new_column_1") = indexOf(csvData.headers, lastOp.col) + 1

\* The window of the editor's table and what it is computed from.
totalRows == Len(csvData.data)
windowStart == startRow(editorTable.scrollTop)
windowEnd == endRow(totalRows, editorTable.scrollTop, editorTable.containerHeight)

\* The rows of which some pixel lies in the viewport [s, s + H).
visibleRowSet ==
  {r \in 0..(totalRows - 1) :
     /\ ROW_HEIGHT * r < editorTable.scrollTop + editorTable.containerHeight
     /\ ROW_HEIGHT * (r + 1) > editorTable.scrollTop}

\* C22: with a viewport of height H > 0 at an offset s of the scroll range
\* (0 <= s and s + H <= max(H, 36 * N)), the window holds every row of which
\* some pixel is in the viewport, and it has at most ceil(H / 36) + 10 rows,
\* however many rows there are.
C22_WindowCoversViewport ==
  (/\ csvData.loaded
   /\ editorTable.containerHeight > 0
   /\ editorTable.scrollTop + editorTable.containerHeight
        <= Max(editorTable.containerHeight, ROW_HEIGHT * totalRows)) =>
    /\ \A r \in visibleRowSet : windowStart <= r /\ r < windowEnd
    /\ windowEnd - windowStart <= ceilDiv(editorTable.containerHeight, ROW_HEIGHT) + 10

\* A viewport of 36 pixels lies across two rows in the middle of twenty.
C22_Witness ==
  /\ csvData.loaded
  /\ totalRows = 20
  /\ editorTable.containerHeight = 36
  /\ editorTable.scrollTop = 190
  /\ visibleRowSet = {5, 6}

\* C23: the window is clamped to the rows, 0 <= startRow <= endRow <=
\* totalRows, for every row count, height and offset, an offset kept from
\* before the rows shrank included.
C23_WindowClamped ==
  csvData.loaded =>
    /\ 0 <= windowStart
    /\ windowStart <= windowEnd
    /\ windowEnd <= totalRows

\* C24: the window has the overscan margin on both sides: startRow <=
\* max(0, firstVisibleRow - 5) and endRow >= min(totalRows, lastVisibleRow +
\* 1 + 5), with firstVisibleRow = floor(s / 36) and lastVisibleRow =
\* ceil((s + H) / 36) - 1.
C24_OverscanBothSides ==
  csvData.loaded =>
    LET firstVisibleRow == editorTable.scrollTop \div ROW_HEIGHT
        lastVisibleRow ==
          ceilDiv(editorTable.scrollTop + editorTable.containerHeight, ROW_HEIGHT) - 1
    IN /\ windowStart <= Max(0, firstVisibleRow - 5)
       /\ windowEnd >= Min(totalRows, lastVisibleRow + 1 + 5)

\* The keys that confirm the draft, by the operation of the step.
ConfirmKeys == {"keyEnter", "keyTab", "keyShiftTab"}

\* The rows with the value draft written at row r (0-based), column c.
withDraft(data, r, c, draft) ==
  [i \in 1..Len(data) |->
     [h \in (DOMAIN data[i]) \cup (IF i = r + 1 THEN {c} ELSE {}) |->
        IF i = r + 1 /\ h = c THEN draft ELSE data[i][h]]]

\* The cell that the controller moves to after the key op is pressed in the
\* cell (r, c); found is FALSE where there is none.
advanceTarget(op, r, c) ==
  LET headers == csvData.headers
      k == indexOf(headers, c) + 1
  IN CASE op = "keyEnter" ->
            [found |-> r + 1 < Len(csvData.data), row |-> r + 1, col |-> c]
       [] op = "keyTab" ->
            [found |-> k < Len(headers), row |-> r,
             col |-> IF k < Len(headers) THEN headers[k + 1] ELSE NoCol]
       [] op = "keyShiftTab" ->
            [found |-> k > 1, row |-> r,
             col |-> IF k > 1 THEN headers[k - 1] ELSE NoCol]

\* C25: Enter, Tab and Shift+Tab pressed in Editing(r, c, draft) commit the
\* draft, leave the controller idle and, where the cell below, the cell of
\* the next header or the cell of the previous header exists, schedule the
\* entry into it and nothing else; the entry, when it runs, finds the commit
\* made, enters Editing of that cell and sets the draft to the value the
\* cell then holds.
C25_ConfirmAndAdvance ==
  /\ [][lastOp'.op \in ConfirmKeys =>
          LET cell == editorTable.editingCell
              target == advanceTarget(lastOp'.op, cell.row, cell.col)
          IN /\ csvData'.data
                  = withDraft(csvData.data, cell.row, cell.col, editorTable.editValue)
             /\ lastOp'.pushes = 1
             /\ ~editorTable'.editingCell.editing
             /\ IF target.found
                THEN /\ Len(timers') = Len(timers) + 1
                     /\ timers'[Len(timers')].row = target.row
                     /\ timers'[Len(timers')].col = target.col
                ELSE timers' = timers]_vars
  /\ [][lastOp'.op = "timeout" =>
          LET next == Head(timers) IN
          /\ editorTable'.editingCell = [editing |-> TRUE, row |-> next.row, col |-> next.col]
          /\ next.row < Len(csvData.data)
          /\ next.col \in Range(csvData.headers)
          /\ editorTable'.editValue = Cell(csvData.data[next.row + 1], next.col)]_vars

\* C26: Escape pressed in Editing leaves the controller idle with nothing
\* scheduled, and neither it nor the entry into Editing nor the typing of
\* the draft changes the displayed snapshot, the log or the cursor; and the
\* table of the query results, which is not editable, is never in Editing.
C26_CancelDiscardsDraft ==
  /\ [](~resultTable.editingCell.editing)
  /\ [][lastOp'.op \in {"doubleClick", "resultDoubleClick", "inputChange", "keyEscape"} =>
          /\ csvData' = csvData
          /\ history' = history
          /\ historyIndex' = historyIndex
          /\ lastOp'.pushes = 0
          /\ lastOp'.op = "keyEscape" =>
               (~editorTable'.editingCell.editing /\ timers' = timers)]_vars

\* Escape was pressed on a draft that differs from the value of the cell,
\* and a double click was made on the table of the query results before.
C26_Witness ==
  /\ lastOp.op = "keyEscape"
  /\ lastOp.value # lastOp.old
  /\ Cell(csvData.data[lastOp.row + 1], lastOp.col) = lastOp.old
  /\ ~editorTable.editingCell.editing

\* C27: a commit of Editing(r, c, draft), by Enter, Tab, Shift+Tab or the
\* blur of the input, displays the snapshot that was displayed with draft in
\* the cell (r, c): the same headers, as many rows, every other cell as it
\* was.  It pushes that snapshot as one entry with the label Edit R<r+1>:<c>
\* and leaves the controller idle.
C27_CommitWritesOneCell ==
  [][lastOp'.op \in ConfirmKeys \cup {"blur"} =>
       LET r == editorTable.editingCell.row
           c == editorTable.editingCell.col
           draft == editorTable.editValue
       IN /\ csvData'.headers = csvData.headers
          /\ Len(csvData'.data) = Len(csvData.data)
          /\ \A i \in 1..Len(csvData.data), h \in Range(csvData.headers) :
               Cell(csvData'.data[i], h)
                 = IF i = r + 1 /\ h = c THEN draft ELSE Cell(csvData.data[i], h)
          /\ lastOp'.pushes = 1
          /\ history'[historyIndex' + 1]
               = [data |-> csvData'.data, headers |-> csvData'.headers,
                  label |-> "Edit R" \o ToString(r + 1) \o ":" \o c]
          /\ ~editorTable'.editingCell.editing]_vars

\* The blur of the input has committed a draft that differs from the value
\* the cell had.
C27_Witness ==
  /\ lastOp.op = "blur"
  /\ lastOp.pushes = 1
  /\ lastOp.value # lastOp.old
  /\ Cell(csvData.data[lastOp.row + 1], lastOp.col) = lastOp.value
  /\ ~editorTable.editingCell.editing

\* C28: the completion of a load with no column, and the failure of the
\* parser, leave the dataset that was active as it was: the displayed
\* headers and rows and the diagnostics (csvData), the baseline of the diff,
\* the log, the cursor, the sort and the search are unchanged by the step.
C28_FailedLoadKeepsDataset ==
  [][lastOp'.op \in {"loadRejected", "loadError"} =>
       /\ csvData' = csvData
       /\ originalData' = originalData
       /\ history' = history
       /\ historyIndex' = historyIndex
       /\ sortCol' = sortCol
       /\ sortDir' = sortDir
       /\ searchState' = searchState]_vars

\* A load has completed with no column over a dataset that is sorted and
\* has a log of several entries.
C28_Witness ==
  /\ lastOp.op = "loadRejected"
  /\ csvData.loaded
  /\ Len(history) >= 2
  /\ sortCol # NoCol

\* C29: a load that completes with columns leaves a log of one entry, the
\* loaded snapshot under the label of the initial load, with the cursor at
\* 0, undo and redo disabled, no sort, an empty query, and the loaded rows as
\* the baseline of the diff, whatever the log, the cursor, the sort and the
\* search were.
C29_LoadStartsNewLog ==
  [][lastOp'.op = "load" =>
       /\ Len(history') = 1
       /\ history'[1] = [data |-> csvData'.data, headers |-> csvData'.headers,
                         label |-> InitialLabel]
       /\ historyIndex' = 0
       /\ ~canUndo(App')
       /\ ~canRedo(App')
       /\ sortCol' = NoCol
       /\ sortDir' = NoDir
       /\ searchState'.query = Empty
       /\ originalData' = [loaded |-> TRUE, data |-> csvData'.data]]_vars

\* A load has completed over a log in which the cursor was above 0 with
\* entries beyond it.
C29_Witness ==
  /\ lastOp.op = "load"
  /\ lastOp.from >= 1
  /\ lastOp.tail >= 1
  /\ Len(history) = 1

\* C30: an entry of the log is not changed while it is in the log.  A step
\* that is not a load and pushes nothing leaves the log as it is; a step
\* that pushes leaves every entry up to the cursor, less the oldest one when
\* the log is full, as it was, in the same order.  The baseline of the diff
\* is not changed by any step that is not a load.
C30_EntriesImmutable ==
  [][lastOp'.op # "load" =>
       /\ originalData' = originalData
       /\ IF lastOp'.pushes = 0
          THEN history' = history
          ELSE LET evicted == IF Len(Kept) = MAX_HISTORY THEN 1 ELSE 0 IN
               /\ Len(history') = Len(Kept) - evicted + 1
               /\ \A k \in (1 + evicted)..Len(Kept) : history'[k - evicted] = history[k]]_vars

\* A sort displays rows in another order than that of the entry at the
\* cursor, with several entries in the log.
C30_Witness ==
  /\ lastOp.op = "sort"
  /\ Len(history) >= 2
  /\ csvData.data # history[historyIndex + 1].data

\* C31: auto-repair is the remove-empty-rows template followed by the
\* trim-whitespace template: on a loaded dataset the rows it displays are
\* those the two templates produce in that order, the number it reports is
\* the sum of the changes the two report, the headers are those before, and
\* an auto-repair of its result produces the same rows again.
C31_AutoRepairIsTwoTemplates ==
  [][(lastOp'.op = "autoRepair" /\ csvData.loaded) =>
       LET removed == applyTemplate("remove-empty-rows", csvData.data, csvData.headers)
           trimmed == applyTemplate("trim-whitespace", removed.data, removed.headers)
       IN /\ csvData'.data = trimmed.data
          /\ autoRepairCount(csvData.data, csvData.headers) = removed.changes + trimmed.changes
          /\ csvData'.headers = csvData.headers
          /\ handleAutoRepair(App').csvData.data = csvData'.data
          /\ autoRepairCount(csvData'.data, csvData'.headers) = 0]_vars

\* An auto-repair has removed an empty row and trimmed a cell of a row it
\* kept: the entry before the one it pushed holds both.
C31_Witness ==
  /\ lastOp.op = "autoRepair"
  /\ lastOp.pushes = 1
  /\ historyIndex >= 1
  /\ LET before == history[historyIndex] IN
     /\ Len(before.data) > Len(csvData.data)
     /\ \E r \in 1..Len(before.data), h \in Range(before.headers) :
          ~allEmpty(before.data[r], before.headers) /\ NeedsTrim(before.data[r], h)
     /\ csvData.data =
          applyTemplate("trim-whitespace",
                        applyTemplate("remove-empty-rows", before.data, before.headers).data,
                        before.headers).data

\* C32: the diagnostics are never remapped.  The set of highlighted row
\* indices is that of the diagnostics of the file last loaded with success:
\* a load sets it to the diagnostics the parser delivered with the rows, and
\* every other step (row and column insert and delete, sort, template,
\* auto-repair, replace, cell edit, undo, redo, a failed load) leaves it as
\* it was, whatever the step does to the rows.
C32_DiagnosticsNeverRemapped ==
  [][/\ lastOp'.op # "load" => errorRows(App') = errorRows(App)
     /\ lastOp'.op = "load" =>
          \E f \in Files : /\ csvData'.data = f.data
                           /\ csvData'.headers = f.fields
                           /\ errorRows(App') = f.errors]_vars

\* After a sort the highlighted index 1 designates the row the parser
\* delivered at index 0, not the row it diagnosed.
C32_Witness ==
  /\ lastOp.op = "sort"
  /\ 1 \in errorRows(App)
  /\ Len(csvData.data) = Len(originalData.data)
  /\ csvData.data[2] = originalData.data[1]
  /\ csvData.data[2] # originalData.data[2]

\* C33: whenever no sort is active the displayed snapshot is the entry of the
\* log at the cursor: with a dataset loaded and sortDir null, the displayed
\* headers and rows equal those of history[historyIndex].
C33_UnsortedShowsCursorEntry ==
  (csvData.loaded /\ sortDir = NoDir) =>
     /\ historyIndex >= 0
     /\ historyIndex < Len(history)
     /\ csvData.headers = history[historyIndex + 1].headers
     /\ csvData.data = history[historyIndex + 1].data

\* C34: the sort indicator is truthful: whenever a sort is active on column
\* sortCol in direction sortDir, no displayed row compares greater than the
\* row displayed after it under the comparator of the sort for that column
\* and direction.
C34_SortIndicatorTruthful ==
  (csvData.loaded /\ sortDir # NoDir) =>
     \A i \in 1..(Len(csvData.data) - 1) :
        compareRows(csvData.data[i], csvData.data[i + 1], sortCol, sortDir) <= 0

\* C35: a push consumes a slot of the log only for a change: no entry of the
\* log has the headers and rows of the entry before it.
C35_NoEqualConsecutiveEntries ==
  \A k \in 1..(Len(history) - 1) :
     \/ history[k].data # history[k + 1].data
     \/ history[k].headers # history[k + 1].headers

\* C36: an operation of the context menu targets an existing position: when
\* an item of the menu is executed, the anchor row of the menu is below the
\* number of displayed rows and its anchor column is a displayed header;
\* delete-row then leaves one row less, and delete-column, which is refused
\* on the last column, one header less.
C36_MenuTargetsExistingPosition ==
  [][lastOp'.op \in MenuItems =>
       /\ contextMenu.row < Len(csvData.data)
       /\ contextMenu.col \in Range(csvData.headers)
       /\ lastOp'.op = "delete-row" => Len(csvData'.data) = Len(csvData.data) - 1
       /\ (lastOp'.op = "delete-col" /\ Len(csvData.headers) > 1) =>
             Len(csvData'.headers) = Len(csvData.headers) - 1]_vars

\* C37: while the cell edit controller of the editor's table is in Editing(r,
\* c), r is below the number of displayed rows and c is a displayed header.
C37_EditingCellExists ==
  (csvData.loaded /\ editorTable.editingCell.editing) =>
     /\ editorTable.editingCell.row < Len(csvData.data)
     /\ editorTable.editingCell.col \in Range(csvData.headers)

\* C38: the selected match stays in range.  In every state, which is one in
\* which the effect that synchronises the match count has run, matchCount is
\* the number of matches of the query over the displayed snapshot, and
\* currentMatch is 0 when there is no match and at least 0 and below
\* matchCount otherwise; a change of the query sets currentMatch to 0.
C38_SelectedMatchInRange ==
  /\ [](/\ searchState.matchCount = Len(searchMatches(App))
        /\ searchState.currentMatch >= 0
        /\ IF searchState.matchCount = 0
           THEN searchState.currentMatch = 0
           ELSE searchState.currentMatch < searchState.matchCount)
  /\ [][lastOp'.op = "searchChange" =>
          /\ searchState'.query = lastOp'.value
          /\ searchState'.currentMatch = 0]_vars

\* The last of two matches was selected and replaced: one match is left and
\* the selection has moved to it.
C38_Witness ==
  /\ lastOp.op = "replaceOne"
  /\ lastOp.pushes = 1
  /\ historyIndex >= 1
  /\ sortCol = NoCol
  /\ LET before == [App EXCEPT !.csvData.data = history[historyIndex].data,
                               !.csvData.headers = history[historyIndex].headers]
     IN /\ Len(searchMatches(before)) = 2
        /\ LET last == searchMatches(before)[2] IN
           Cell(csvData.data[last.row + 1], last.col)
             # Cell(before.csvData.data[last.row + 1], last.col)
  /\ searchState.matchCount = 1
  /\ searchState.currentMatch = 0

\* The file most recently handed to processFile: the one whose name the
\* loading indicator shows.
latestRequested == CHOOSE file \in LoadFiles : file.name = loadingFileName

\* C39: with loads that overlap, the loading indicator is shown for as long
\* as a parse is outstanding, and once the last outstanding parse has
\* completed the displayed dataset, the baseline of the diff and the log, of
\* one entry, are those of the file most recently requested.
C39_LatestRequestWins ==
  /\ parses # <<>> => isLoading
  /\ (parses = <<>> /\ lastOp.op = "load") =>
       LET results == latestRequested.results IN
       /\ csvData.data = results.data
       /\ csvData.headers = results.fields
       /\ originalData = [loaded |-> TRUE, data |-> results.data]
       /\ history = <<[data |-> results.data, headers |-> results.fields,
                       label |-> InitialLabel]>>
====
